---- MODULE Spec2Model ----
(***************************************************************************)
(* Model of the rermius session engine (src-tauri/src): the terminal and   *)
(* file-transfer session managers, the SSH jump-host chain builder, the    *)
(* per-session background I/O loops and the upload naming policy.          *)
(***************************************************************************)
EXTENDS Integers, Sequences, FiniteSets, TLC

(***************************************************************************)
(* Bounds of the model                                                     *)
(***************************************************************************)
\* longest jump-host chain explored (jumps + target)
MaxHops == 2
\* number of session ids that can be generated
MaxSessions == 1
\* inbound chunks received by one session
MaxInbound == 2
\* length of a session's write queue and of its resize queue
MaxQueue == 1
\* transfers started
MaxTransfers == 1
\* size of a transferred file, in bytes
MaxBytes == 1
\* entries of a directory listing drawn from the pool of entries
MaxEntries == 2
MaxLists == 2
MaxChunk == 4
MaxCalls == 3
MaxWords == 3
\* messages an exec channel delivers before it closes
MaxMsgs == 3
\* calls of execute_command on one SSH session
MaxExecs == 2
\* calls of chmod on one remote file
MaxChmods == 2
\* events handled by one Telnet session loop
MaxLoopSteps == 3
\* calls of process on one auto-login handler that is fed long texts
MaxLongCalls == 3
\* bytes of a stream made of any of the bytes of the model
MaxStream == 3
\* uploads of one file name into one directory on one session
MaxUploads == 2
\* calls of stat on one SFTP session
MaxStats == 3

\* managers/transfer.rs generate_unique_filename: the highest number tried
MaxAttempts == 1000

(***************************************************************************)
(* Generic helpers                                                         *)
(***************************************************************************)
Range(s) == {s[i] : i \in 1..Len(s)}

SeqsUpTo(S, n) == UNION {[1..k -> S] : k \in 0..n}

RECURSIVE Concat(_)
\* Vec<String>::join("") / concatenation of a sequence of sequences
Concat(ss) == IF ss = <<>> THEN <<>> ELSE Head(ss) \o Concat(Tail(ss))

IsPrefix(s, t) == Len(s) <= Len(t) /\ SubSeq(t, 1, Len(s)) = s

(***************************************************************************)
(* SSH connector and jump-host chain  (ssh/config.rs, ssh/client.rs,       *)
(* ssh/chain.rs)                                                           *)
(***************************************************************************)
HostNames == {"hostA", "hostB"}
UserNames == {"alice", "bob"}
SshAuth == {"Password", "Key", "Agent"}

\* ssh/config.rs HostConfig (the port is fixed: it plays no role in control flow)
HostConfig == [hostname : HostNames, port : {"22"}, username : UserNames, auth : SshAuth]

\* what the remote side / network does to one execution of the chain:
\* no fault, or the step of one hop that fails
NoFault == [hop |-> -1, step |-> "none"]
FaultSteps == {"connect", "auth_error", "auth_rejected", "tunnel"}
Faults(n) == {NoFault} \cup [hop : 0..(n - 1), step : FaultSteps]

\* text of an error of the SSH library (russh::Error / io::Error Display):
\* it is produced by the library and names neither host nor hop
LibMsg == "russh error"

\* SshError values: the variant and the tokens its message is formatted from
SshErr(variant, msg) == [variant |-> variant, msg |-> msg]

\* ssh/client.rs connect_direct: TCP connect + handshake
connect_direct(config, fails) ==
    IF fails THEN [ok |-> FALSE, err |-> SshErr("Connection", <<LibMsg>>)]
    ELSE [ok |-> TRUE, handle |-> config.hostname]

\* ssh/chain.rs connect_over_channel: handshake through the local bridge
connect_over_channel(config, fails) ==
    IF fails
    THEN [ok |-> FALSE, err |-> SshErr("Connection", <<"SSH over tunnel failed: ", LibMsg>>)]
    ELSE [ok |-> TRUE, handle |-> config.hostname]

\* ssh/client.rs authenticate: outcome "ok", "auth_error" (the library call
\* itself fails) or "auth_rejected" (the server refuses the credential)
authenticate(config, outcome) ==
    CASE outcome = "auth_error" ->
           IF config.auth = "Key"
           THEN [ok |-> FALSE, err |-> SshErr("KeyError", <<LibMsg>>)]
           ELSE IF config.auth = "Agent"
           THEN [ok |-> FALSE, err |-> SshErr("AuthFailed", <<"Failed to list agent keys: ", LibMsg>>)]
           ELSE [ok |-> FALSE, err |-> SshErr("ProtocolError", <<LibMsg>>)]
      [] outcome = "auth_rejected" ->
           IF config.auth = "Password"
           THEN [ok |-> FALSE, err |-> SshErr("AuthFailed", <<"Password auth failed for ", config.username>>)]
           ELSE IF config.auth = "Key"
           THEN [ok |-> FALSE, err |-> SshErr("AuthFailed", <<"Key auth failed for ", config.username>>)]
           ELSE [ok |-> FALSE, err |-> SshErr("AuthFailed", <<"All agent key(s) rejected by server. Last error: ", LibMsg>>)]
      [] OTHER -> [ok |-> TRUE]

\* a faulty variant of emit_progress that numbers the hops from 1
ChainProgress_from_one(hop_index, total_hops, config, status) ==
    [hop_index |-> hop_index + 1, total_hops |-> total_hops,
     hostname |-> config.hostname, status |-> status]

\* ssh/chain.rs HopHandler::emit_progress: one ssh-chain-progress event
ChainProgress(hop_index, total_hops, config, status) ==
    [hop_index |-> hop_index, total_hops |-> total_hops,
     hostname |-> config.hostname, status |-> status]

\* the error of a failed channel_open_direct_tcpip to the next hop
TunnelErr(next) ==
    SshErr("Connection", <<"Cannot open tunnel to ", next.hostname, ":", next.port,
                           " - check if TCP forwarding is enabled on jump host and target is reachable. Error: ",
                           LibMsg>>)

RECURSIVE execute(_, _, _, _)
\* ssh/chain.rs HopHandler::execute for the handler of hop `index` (0-based) of
\* `configs`; `events` are the progress events emitted so far.  Returns the
\* result and all events emitted.
execute(configs, index, fault, events) ==
    LET config == configs[index + 1]
        total  == Len(configs)
        here(s) == fault.hop = index /\ fault.step = s
        ev1 == Append(events, ChainProgress(index, total, config, "connecting"))
        conn == IF index = 0 THEN connect_direct(config, here("connect"))
                ELSE connect_over_channel(config, here("connect"))
        ev2 == Append(ev1, ChainProgress(index, total, config, "authenticating"))
        auth == authenticate(config, IF fault.hop = index THEN fault.step ELSE "ok")
        ev3 == Append(ev2, ChainProgress(index, total, config, "connected"))
    IN  IF ~conn.ok THEN [ok |-> FALSE, err |-> conn.err, events |-> ev1]
        ELSE IF ~auth.ok THEN [ok |-> FALSE, err |-> auth.err, events |-> ev2]
        ELSE IF index + 1 < total
             THEN IF here("tunnel")
                  THEN [ok |-> FALSE, err |-> TunnelErr(configs[index + 2]), events |-> ev3]
                  ELSE execute(configs, index + 1, fault, ev3)
             ELSE [ok |-> TRUE, handle |-> conn.handle, events |-> ev3]

\* ssh/chain.rs HopHandler::from_config + execute(None, ..)
chain_execute(jumps, target, fault) == execute(Append(jumps, target), 0, fault, <<>>)

\* a fault the chain can meet: the tunnel step exists only on a jump host
FaultPossible(n, fault) ==
    fault \in Faults(n) /\ (fault.step = "tunnel" => fault.hop < n - 1)

\* the value of a result that has not been produced yet
Pending == [pending |-> TRUE]
IsPending(r) == "pending" \in DOMAIN r

(***************************************************************************)
(* Terminal sessions  (pty/session.rs, ssh/terminal.rs, telnet/session.rs) *)
(***************************************************************************)
\* terminal/session.rs SessionType
SessionType == {"Local", "Ssh", "Telnet"}

\* inbound byte chunks: an ASCII byte, and a byte that is never valid UTF-8
Chunks == {<<97>>, <<255>>}

\* String::from_utf8_lossy on chunks of ASCII and invalid bytes: every invalid
\* byte becomes U+FFFD
Utf8Lossy(bytes) == [i \in 1..Len(bytes) |-> IF bytes[i] < 128 THEN bytes[i] ELSE 65533]

\* core/terminal_events.rs TerminalExitEvent constructors
user_closed == [exit_code |-> 0, reason |-> "user-closed"]
connection_lost == [exit_code |-> 1, reason |-> "connection-lost"]
connection_error == [exit_code |-> 1, reason |-> "connection-error:"]
process_exited == [exit_code |-> 0, reason |-> "process-exited"]

\* entries of a session's log: the events emitted on the event sink for the
\* session id, and the invocation of the session's own close()
OutputEvent(text) == [name |-> "terminal-output", text |-> text]
ExitEvent(e) == [name |-> "terminal-exit", exit |-> e]
ErrorEvent == [name |-> "terminal-error"]
CloseCall == [name |-> "session.close()"]

\* ssh/terminal.rs SshTerminalSession::connect up to the spawn of the I/O loop:
\* the transport (direct or chained), then the PTY channel
ssh_connect(jumps, target, fault) ==
    LET transport ==
          IF jumps = <<>>
          THEN LET c == connect_direct(target, fault.hop = 0 /\ fault.step = "connect")
                   a == authenticate(target, IF fault.hop = 0 THEN fault.step ELSE "ok")
               IN  IF ~c.ok THEN c ELSE IF ~a.ok THEN a ELSE c
          ELSE chain_execute(jumps, target, fault)
    IN  IF ~transport.ok THEN [ok |-> FALSE, err |-> transport.err]
        ELSE IF fault.step \in {"channel_open", "request_pty", "request_shell"}
        THEN [ok |-> FALSE, err |-> SshErr("ChannelError", <<"Channel open failed">>)]
        ELSE [ok |-> TRUE]

\* faults of one SSH terminal session creation over n hops
SshFaults(n) ==
    {f \in Faults(n) : FaultPossible(n, f)}
      \cup [hop : {n}, step : {"channel_open", "request_pty", "request_shell"}]

(***************************************************************************)
(* State                                                                   *)
(***************************************************************************)
VARIABLES
    chain_configs,     \* the hop configurations of the chain under execution
    chain_fault,       \* what fails during this execution
    chain_result,      \* Pending, or the result of execute
    next_id,           \* number of session ids generated so far (Uuid::new_v4)
    sessions,          \* TerminalManager.sessions: id -> session type
    senders,           \* id -> the session object (write_tx, resize_tx) is alive
    kind,              \* id -> "none", or the session type the id was created with
    task,              \* id -> "none" | "running" | "ended": the background task
    write_q,           \* id -> queued write requests (write_rx)
    resize_q,          \* id -> queued resize requests (resize_rx)
    streaming_started, \* id -> the session's streaming flag
    pending_buffer,    \* id -> the I/O loop's pending_buffer
    child,             \* id -> "none" | "running" | "killed": local shell process
    inbound,           \* id -> texts of the inbound chunks, in arrival order
    log,               \* id -> events emitted for the id and close() calls, in order
    last,              \* the last manager call and what it returned
    delegated,         \* id -> the session operation a manager call on the id is
                       \* waiting for ("none" when there is none)
    sessions_guard,    \* the ids whose manager call holds a read guard of
                       \* TerminalManager.sessions (a tokio RwLock)
    home_resolved_for_root, \* file session id -> the session's once-only flag
    home_directory,    \* file session id -> FtpSession.home_directory (an Option)
    cwd,               \* file session id -> the FTP server's working directory
    lists,             \* list call -> the state and the outcome of that call
    proto,             \* a TelnetProtocol: the three negotiation flags
    tn_data,           \* the chunk given to process_data
    tn_out,            \* what process_data returned, and the flags before the call
    naws_size,         \* <<cols, rows>> given to build_naws
    naws_msg,          \* what build_naws returned
    login,             \* an AutoLogin: state, username, password, buffer
    login_out,         \* the last process call: the handler before it, the text
                       \* given, the response
    login_calls,       \* the number of process calls so far
    login_sent,        \* the responses process has returned so far, in order
    list_line,         \* parse_ftp_list_line: the line of the LIST answer
    list_base_path,    \* parse_ftp_list_line: the directory that was listed
    parsed,            \* what parse_ftp_list_line returned
    uid_cache,         \* SftpSession.uid_cache: uid -> user name
    gid_cache,         \* SftpSession.gid_cache: gid -> group name
    stat_out,          \* SftpSession::stat: the last call and what it returned
    stat_seen,         \* the owner and group texts stat has returned so far, with their ids and where the text came from
    stat_calls,        \* the number of stat calls so far
    remote_files,      \* the names of the files in the remote directory uploaded into
    uploads,           \* upload -> how far its upload_file is, what it listed and the name it took
    upload_lock,       \* the upload holding the session's protocol mutex, 0 when it is free
    upload_conn,       \* the connection type of the session uploaded on
    stream,            \* the bytes a Telnet server sends, in the order sent
    fed,               \* how many bytes of stream the reads have returned
    cuts,              \* the positions in stream at which a read ended
    codec,             \* the flags of the codec that is given the reads
    cleaned,           \* the clean data of the reads so far, concatenated
    responded,         \* the responses of the reads so far, concatenated
    protocol,          \* Telnet io_loop: the codec's negotiation flags
    current_cols,      \* Telnet io_loop: the tracked terminal width
    current_rows,      \* Telnet io_loop: the tracked terminal height
    writer,            \* Telnet io_loop: the buffers written to the socket, in order
    loop_pc,           \* Telnet io_loop: running, or ended
    loop_steps,        \* Telnet io_loop: the number of events handled so far
    file_mode,         \* the mode of the remote file chmod is called on
    chmod_out,         \* SftpSession::chmod: the last call and what it returned
    chmod_calls,       \* the number of chmod calls so far
    channels_opened,   \* the number of channels opened on the SSH handle so far
    exec_in,           \* execute_command: the messages its exec channel delivers
    exec,              \* execute_command: the state of the call and what it returned
    ft_next_id,        \* number of file session ids generated so far
    ft_sessions,       \* FileTransferManager.sessions: id -> connection type
    transfers,         \* transfer id -> the state of that download or upload
    progress,          \* the file-transfer-progress events emitted, in order
    protocol_lock,     \* file session id -> the transfer holding the session's
                       \* protocol mutex (sftp / ftp stream), 0 when it is free
    base_name,         \* generate_unique_filename: the name asked for
    existing_files,    \* generate_unique_filename: the listing of the directory
    now,               \* seconds since the epoch on the system clock
    unique_file_name   \* generate_unique_filename: the name returned

chainVars == <<chain_configs, chain_fault, chain_result>>
termVars == <<next_id, sessions, senders, kind, task, write_q, resize_q, streaming_started,
              pending_buffer, child, inbound, log, last>>
ftVars == <<ft_next_id, ft_sessions, transfers, progress, protocol_lock>>
nameVars == <<base_name, existing_files, now, unique_file_name>>
lockVars == <<delegated, sessions_guard>>
listVars == <<home_resolved_for_root, home_directory, cwd, lists>>
telnetVars == <<proto, tn_data, tn_out, naws_size, naws_msg>>
loginVars == <<login, login_out, login_calls, login_sent>>
parseVars == <<list_line, list_base_path, parsed>>
execVars == <<channels_opened, exec_in, exec>>
chmodVars == <<file_mode, chmod_out, chmod_calls>>
loopVars == <<protocol, current_cols, current_rows, writer, loop_pc, loop_steps>>
streamVars == <<stream, fed, cuts, codec, cleaned, responded>>
uploadVars == <<remote_files, uploads, upload_lock, upload_conn>>
statVars == <<uid_cache, gid_cache, stat_out, stat_seen, stat_calls>>
vars == <<chainVars, termVars, ftVars, nameVars, lockVars, listVars, telnetVars, loginVars, parseVars, execVars, chmodVars, loopVars, streamVars, uploadVars, statVars>>

ChainInit ==
    /\ chain_configs \in SeqsUpTo(HostConfig, MaxHops) \ {<<>>}
    /\ chain_fault \in {f \in Faults(MaxHops) : FaultPossible(Len(chain_configs), f)}
    /\ chain_result = Pending

ChainIdle ==
    /\ chain_configs = <<>>
    /\ chain_fault = NoFault
    /\ chain_result = Pending

Ids == 1..MaxSessions
\* the ids the file manager is called with: those it can generate, and one it
\* never generates
FtIds == 1..(MaxSessions + 1)

\* TerminalManager::new: an empty registry
TermInit ==
    /\ next_id = 0
    /\ sessions = <<>>
    /\ senders = [i \in Ids |-> FALSE]
    /\ kind = [i \in Ids |-> "none"]
    /\ task = [i \in Ids |-> "none"]
    /\ delegated = [i \in Ids |-> "none"]
    /\ sessions_guard = {}
    /\ write_q = [i \in Ids |-> <<>>]
    /\ resize_q = [i \in Ids |-> <<>>]
    /\ streaming_started = [i \in Ids |-> FALSE]
    /\ pending_buffer = [i \in Ids |-> <<>>]
    /\ child = [i \in Ids |-> "none"]
    /\ inbound = [i \in Ids |-> <<>>]
    /\ log = [i \in Ids |-> <<>>]
    /\ last = [op |-> "new", id |-> 0, ret |-> "Ok"]
    /\ delegated = [i \in Ids |-> "none"]
    /\ sessions_guard = {}

(***************************************************************************)
(* Terminal session manager  (managers/terminal.rs)                        *)
(***************************************************************************)
Registered(id) == id \in DOMAIN sessions

\* HashMap::insert / HashMap::remove on the registry
Insert(map, id, v) == [k \in DOMAIN map \cup {id} |-> IF k = id THEN v ELSE map[k]]
Remove(map, id) == [k \in DOMAIN map \ {id} |-> map[k]]

Ret(op, id, ret) == [op |-> op, id |-> id, ret |-> ret]

NotFound == "Session not found"
\* the error strings of the create operations: an argument rejected before any
\* connection ("Password required", "Chain cannot be empty", ...), and the
\* text of the session constructor's error
ArgErr == "invalid argument"
ConnectErr == "connect error"

\* the frame of a manager call that only returns a value
ReturnOnly(op, id, ret) ==
    /\ last' = Ret(op, id, ret)
    /\ UNCHANGED <<next_id, sessions, senders, kind, task, write_q, resize_q,
                   streaming_started, pending_buffer, child, inbound, log>>

\* RwLock::write().await on TerminalManager.sessions: granted once no guard is
\* held
WriteLockFree == sessions_guard = {}

\* a faulty variant of Register that registers the session whether or not its
\* construction succeeded
Register_always(op, type, result) ==
    LET id == next_id + 1 IN
    /\ WriteLockFree
    /\ next_id < MaxSessions
    /\ next_id' = id
    /\ sessions' = Insert(sessions, id, type)
    /\ senders' = [senders EXCEPT ![id] = TRUE]
    /\ kind' = [kind EXCEPT ![id] = type]
    /\ task' = [task EXCEPT ![id] = "running"]
    /\ child' = [child EXCEPT ![id] = IF type = "Local" THEN "running" ELSE "none"]
    /\ last' = Ret(op, id, IF result.ok THEN "Ok" ELSE ConnectErr)
    /\ UNCHANGED <<write_q, resize_q, streaming_started, pending_buffer, inbound, log>>

\* the tail of every create operation: `session?`, then insert under the write
\* lock; by then the constructor has spawned the background task (and, for a
\* local session, the shell)
Register(op, type, result) ==
    IF ~result.ok
    THEN ReturnOnly(op, 0, ConnectErr)
    ELSE LET id == next_id + 1 IN
         /\ WriteLockFree
         /\ next_id < MaxSessions
         /\ next_id' = id
         /\ sessions' = Insert(sessions, id, type)
         /\ senders' = [senders EXCEPT ![id] = TRUE]
         /\ kind' = [kind EXCEPT ![id] = type]
         /\ task' = [task EXCEPT ![id] = "running"]
         /\ child' = [child EXCEPT ![id] = IF type = "Local" THEN "running" ELSE "none"]
         /\ last' = Ret(op, id, "Ok")
         /\ UNCHANGED <<write_q, resize_q, streaming_started, pending_buffer, inbound, log>>

\* the create operation that makes a session of a type
CreateOp(type) == CASE type = "Local" -> "create_local_session"
                    [] type = "Ssh" -> "create_ssh_session"
                    [] OTHER -> "create_telnet_session"

\* pty/session.rs LocalPtySession::new: openpty, spawn_command,
\* try_clone_reader, take_writer, each of which can fail
PtyFaults == {"none", "openpty", "spawn_command", "try_clone_reader", "take_writer"}

create_local_session ==
    \E fault \in PtyFaults :
        Register("create_local_session", "Local", [ok |-> fault = "none"])

\* managers/terminal.rs create_ssh_session: the auth method string is converted
\* first, then the session is connected without jump hosts
create_ssh_session ==
    \E auth_method \in {"password", "key", "agent", "other"},
       credential \in BOOLEAN,  \* the password or key path of the method is given
       hostname \in {"hostA"}, username \in {"alice"} :
      LET op == "create_ssh_session" IN
      IF \/ auth_method \in {"password", "key"} /\ ~credential
         \/ auth_method = "other"
      THEN ReturnOnly(op, 0, ArgErr)
      ELSE \E fault \in SshFaults(1) :
             LET auth == CASE auth_method = "password" -> "Password"
                           [] auth_method = "key" -> "Key"
                           [] OTHER -> "Agent"
                 target == [hostname |-> hostname, port |-> "22",
                            username |-> username, auth |-> auth]
             IN  Register(op, "Ssh", ssh_connect(<<>>, target, fault))

\* the hosts the managers' create operations are called with (the chain
\* specification covers all of HostConfig)
ManagerHosts == {h \in HostConfig : h.hostname = "hostA" /\ h.username = "alice" /\ h.auth = "Password"}

\* the chains the managers' create operations are called with: none, a target
\* alone, one jump and a target (the chain specification covers longer chains)
ManagerChains == SeqsUpTo(ManagerHosts, 2)

\* managers/terminal.rs create_chained_ssh_session: the last element of the
\* chain is the target, the rest are jumps
create_chained_ssh_session ==
    \E chain \in ManagerChains :
      LET op == "create_chained_ssh_session" IN
      IF chain = <<>>
      THEN ReturnOnly(op, 0, ArgErr)
      ELSE \E fault \in SshFaults(Len(chain)) :
             Register(op, "Ssh",
                      ssh_connect(SubSeq(chain, 1, Len(chain) - 1), chain[Len(chain)], fault))

\* telnet/client.rs connect: timeout or connection error, else the stream
TelnetFaults == {"none", "timeout", "connect", "set_nodelay"}

\* managers/terminal.rs create_telnet_session
create_telnet_session ==
    \E fault \in TelnetFaults :
        Register("create_telnet_session", "Telnet", [ok |-> fault = "none"])

\* the frame of a manager call on a session's queue
QueueOnly(op, id, ret) ==
    /\ last' = Ret(op, id, ret)
    /\ UNCHANGED <<next_id, sessions, senders, kind, task, streaming_started,
                   pending_buffer, child, inbound, log>>

\* managers/terminal.rs write_to_session.  Local: write_all + flush on the PTY
\* writer, which can fail; Ssh, Telnet: write_tx.send, which fails once the
\* receiver is gone
write_to_session(id) ==
    LET op == "write_to_session" IN
    IF ~Registered(id) THEN ReturnOnly(op, id, NotFound)
    ELSE IF sessions[id] = "Local"
    THEN \E io_ok \in BOOLEAN : ReturnOnly(op, id, IF io_ok THEN "Ok" ELSE "Err")
    ELSE IF task[id] # "running" THEN ReturnOnly(op, id, "Err")
    ELSE /\ Len(write_q[id]) < MaxQueue
         /\ write_q' = [write_q EXCEPT ![id] = Append(@, "data")]
         /\ UNCHANGED resize_q
         /\ QueueOnly(op, id, "Ok")

\* managers/terminal.rs resize_session
resize_session(id) ==
    LET op == "resize_session" IN
    IF ~Registered(id) THEN ReturnOnly(op, id, NotFound)
    ELSE IF sessions[id] = "Local"
    THEN \E io_ok \in BOOLEAN : ReturnOnly(op, id, IF io_ok THEN "Ok" ELSE "Err")
    ELSE IF task[id] # "running" THEN ReturnOnly(op, id, "Err")
    ELSE /\ Len(resize_q[id]) < MaxQueue
         /\ resize_q' = [resize_q EXCEPT ![id] = Append(@, "size")]
         /\ UNCHANGED write_q
         /\ QueueOnly(op, id, "Ok")

\* managers/terminal.rs start_streaming; the session's start_streaming swaps
\* the flag to true (the default implementation, used by Local, does nothing)
start_streaming(id) ==
    LET op == "start_streaming" IN
    IF ~Registered(id) THEN ReturnOnly(op, id, NotFound)
    ELSE /\ streaming_started' =
              IF sessions[id] = "Local" THEN streaming_started
              ELSE [streaming_started EXCEPT ![id] = TRUE]
         /\ last' = Ret(op, id, "Ok")
         /\ UNCHANGED <<next_id, sessions, senders, kind, task, write_q, resize_q,
                        pending_buffer, child, inbound, log>>

\* managers/terminal.rs ping_session: contains_key only
ping_session(id) ==
    ReturnOnly("ping_session", id, IF Registered(id) THEN "Ok" ELSE NotFound)

\* managers/terminal.rs execute_command up to the await of the session's
\* execute_command: the read guard `sessions` is taken for the lookup and is
\* still alive while the session works.  The default implementation returns
\* "not supported" at once; Ssh opens an exec channel and collects the output
\* of the command
execute_command(id) ==
    LET op == "execute_command" IN
    IF ~Registered(id)
    THEN ReturnOnly(op, id, NotFound) /\ UNCHANGED lockVars
    ELSE IF sessions[id] = "Ssh"
    THEN /\ delegated[id] = "none"
         /\ delegated' = [delegated EXCEPT ![id] = op]
         /\ sessions_guard' = sessions_guard \cup {id}
         /\ UNCHANGED termVars
    ELSE ReturnOnly(op, id, "Err") /\ UNCHANGED lockVars

\* ssh/terminal.rs execute_command returns (the command succeeded or failed);
\* managers/terminal.rs execute_command returns the result, which drops the
\* read guard
execute_command_return(id) ==
    /\ delegated[id] = "execute_command"
    /\ \E cmd_ok \in BOOLEAN : ReturnOnly("execute_command", id, IF cmd_ok THEN "Ok" ELSE "Err")
    /\ delegated' = [delegated EXCEPT ![id] = "none"]
    /\ sessions_guard' = sessions_guard \ {id}

\* a faulty variant of close_session that invokes the session's close before
\* it emits the exit event
close_session_close_first(id) ==
    LET op == "close_session" IN
    /\ WriteLockFree
    /\ IF ~Registered(id) THEN ReturnOnly(op, id, "Ok")
       ELSE \E kill_ok \in BOOLEAN :
         /\ sessions' = Remove(sessions, id)
         /\ log' = [log EXCEPT ![id] = @ \o <<CloseCall, ExitEvent(user_closed)>>]
         /\ child' = [child EXCEPT ![id] =
                        IF sessions[id] = "Local" /\ kill_ok THEN "killed" ELSE @]
         /\ senders' = [senders EXCEPT ![id] = FALSE]
         /\ last' = Ret(op, id, IF sessions[id] = "Local" /\ ~kill_ok THEN "Err" ELSE "Ok")
         /\ UNCHANGED <<next_id, kind, task, write_q, resize_q, streaming_started,
                        pending_buffer, inbound>>

\* managers/terminal.rs close_session: remove, emit user-closed, call the
\* session's close (Local: kill the child, which can fail; Ssh, Telnet: nothing),
\* then the removed session is dropped, and its senders with it
close_session(id) ==
    LET op == "close_session" IN
    /\ WriteLockFree
    /\ IF ~Registered(id) THEN ReturnOnly(op, id, "Ok")
       ELSE \E kill_ok \in BOOLEAN :
         /\ sessions' = Remove(sessions, id)
         /\ log' = [log EXCEPT ![id] = @ \o <<ExitEvent(user_closed), CloseCall>>]
         /\ child' = [child EXCEPT ![id] =
                        IF sessions[id] = "Local" /\ kill_ok THEN "killed" ELSE @]
         /\ senders' = [senders EXCEPT ![id] = FALSE]
         /\ last' = Ret(op, id, IF sessions[id] = "Local" /\ ~kill_ok THEN "Err" ELSE "Ok")
         /\ UNCHANGED <<next_id, kind, task, write_q, resize_q, streaming_started,
                        pending_buffer, inbound>>

(***************************************************************************)
(* Background I/O tasks                                                    *)
(***************************************************************************)
Emit(id, entries) == log' = [log EXCEPT ![id] = @ \o entries]

\* the loop handles one more inbound chunk only within the model's bound
MayReceive(id) == Len(inbound[id]) < MaxInbound

\* ssh/terminal.rs channel_io_loop, the Data arm: flush the pending buffer,
\* then emit the chunk; or buffer it
ssh_on_data(id, output) ==
    IF streaming_started[id]
    THEN /\ Emit(id, (IF pending_buffer[id] # <<>>
                      THEN <<OutputEvent(Concat(pending_buffer[id]))>> ELSE <<>>)
                     \o <<OutputEvent(output)>>)
         /\ pending_buffer' = [pending_buffer EXCEPT ![id] = <<>>]
    ELSE /\ pending_buffer' = [pending_buffer EXCEPT ![id] = Append(@, output)]
         /\ UNCHANGED log

\* a faulty variant of the ExtendedData arm that emits without looking at the
\* streaming flag
ssh_on_extended_data_unbuffered(id, output) ==
    /\ Emit(id, <<OutputEvent(output)>>)
    /\ UNCHANGED pending_buffer

\* ssh/terminal.rs channel_io_loop, the ExtendedData arm: emit the chunk; or
\* buffer it
ssh_on_extended_data(id, output) ==
    IF streaming_started[id]
    THEN /\ Emit(id, <<OutputEvent(output)>>)
         /\ UNCHANGED pending_buffer
    ELSE /\ pending_buffer' = [pending_buffer EXCEPT ![id] = Append(@, output)]
         /\ UNCHANGED log

\* ssh/terminal.rs channel_io_loop, first select arm (biased: polled first):
\* a queued write is sent on the channel; a send error ends the loop
channel_io_loop_write(id) ==
    /\ kind[id] = "Ssh" /\ task[id] = "running"
    /\ write_q[id] # <<>>
    /\ \E send_ok \in BOOLEAN :
         task' = [task EXCEPT ![id] = IF send_ok THEN "running" ELSE "ended"]
    /\ write_q' = [write_q EXCEPT ![id] = Tail(@)]
    /\ UNCHANGED <<next_id, sessions, senders, kind, resize_q, streaming_started,
                   pending_buffer, child, inbound, log, last>>

\* second select arm: a queued resize becomes a window-change request
channel_io_loop_resize(id) ==
    /\ kind[id] = "Ssh" /\ task[id] = "running"
    /\ write_q[id] = <<>>
    /\ resize_q[id] # <<>>
    /\ resize_q' = [resize_q EXCEPT ![id] = Tail(@)]
    /\ UNCHANGED <<next_id, sessions, senders, kind, task, write_q, streaming_started,
                   pending_buffer, child, inbound, log, last>>

SshMsgs == [type : {"Data", "ExtendedData"}, data : Chunks]
             \cup [type : {"Eof", "Close", "ExitStatus", "ExitSignal", "Other", "None"}]

\* third select arm: one message of channel.wait()
channel_io_loop_msg(id) ==
    /\ kind[id] = "Ssh" /\ task[id] = "running"
    /\ write_q[id] = <<>> /\ resize_q[id] = <<>>
    /\ \E msg \in SshMsgs :
         CASE msg.type = "Data" ->
                /\ MayReceive(id)
                /\ inbound' = [inbound EXCEPT ![id] = Append(@, Utf8Lossy(msg.data))]
                /\ ssh_on_data(id, Utf8Lossy(msg.data))
                /\ UNCHANGED task
           [] msg.type = "ExtendedData" ->
                /\ MayReceive(id)
                /\ inbound' = [inbound EXCEPT ![id] = Append(@, Utf8Lossy(msg.data))]
                /\ ssh_on_extended_data(id, Utf8Lossy(msg.data))
                /\ UNCHANGED task
           [] msg.type \in {"Eof", "Close", "None"} ->
                /\ Emit(id, <<ExitEvent(connection_lost)>>)
                /\ task' = [task EXCEPT ![id] = "ended"]
                /\ UNCHANGED <<inbound, pending_buffer>>
           [] OTHER -> UNCHANGED <<inbound, pending_buffer, log, task>>
    /\ UNCHANGED <<next_id, sessions, senders, kind, write_q, resize_q, streaming_started,
                   child, last>>

\* telnet/session.rs io_loop, the write arm: write_all + flush; an error ends
\* the loop
io_loop_write(id) ==
    /\ kind[id] = "Telnet" /\ task[id] = "running"
    /\ write_q[id] # <<>>
    /\ \E write_ok \in BOOLEAN :
         task' = [task EXCEPT ![id] = IF write_ok THEN "running" ELSE "ended"]
    /\ write_q' = [write_q EXCEPT ![id] = Tail(@)]
    /\ UNCHANGED <<next_id, sessions, senders, kind, resize_q, streaming_started,
                   pending_buffer, child, inbound, log, last>>

\* the resize arm: the tracked size is updated (and NAWS sent when enabled)
io_loop_resize(id) ==
    /\ kind[id] = "Telnet" /\ task[id] = "running"
    /\ resize_q[id] # <<>>
    /\ resize_q' = [resize_q EXCEPT ![id] = Tail(@)]
    /\ UNCHANGED <<next_id, sessions, senders, kind, task, write_q, streaming_started,
                   pending_buffer, child, inbound, log, last>>

\* what reader.read returns, after the codec: Ok(0), Ok(n) with the cleaned
\* data of the chunk (empty when the chunk held only negotiation), or Err
TelnetReads == [type : {"Ok"}, clean_data : Chunks \cup {<<>>}]
                 \cup [type : {"Ok(0)", "Err"}]

\* telnet/session.rs io_loop, the read arm
io_loop_read(id) ==
    /\ kind[id] = "Telnet" /\ task[id] = "running"
    /\ \E result \in TelnetReads :
         CASE result.type = "Ok(0)" ->
                /\ Emit(id, <<ExitEvent(connection_lost)>>)
                /\ task' = [task EXCEPT ![id] = "ended"]
                /\ UNCHANGED <<inbound, pending_buffer>>
           [] result.type = "Err" ->
                /\ Emit(id, <<ExitEvent(connection_error)>>)
                /\ task' = [task EXCEPT ![id] = "ended"]
                /\ UNCHANGED <<inbound, pending_buffer>>
           [] OTHER ->
                /\ MayReceive(id)
                /\ UNCHANGED task
                /\ IF result.clean_data = <<>>
                   THEN UNCHANGED <<inbound, pending_buffer, log>>
                   ELSE /\ inbound' = [inbound EXCEPT ![id] =
                                          Append(@, Utf8Lossy(result.clean_data))]
                        /\ ssh_on_data(id, Utf8Lossy(result.clean_data))
    /\ UNCHANGED <<next_id, sessions, senders, kind, write_q, resize_q, streaming_started,
                   child, last>>

\* pty/session.rs reader task: Ok(0) emits process-exited and stops, Ok(n)
\* emits the chunk, Err emits terminal-error and stops.  While the shell runs
\* the read returns data (or fails); once it is gone the read returns Ok(0) or
\* fails, as the platform has it.
PtyReads(id) ==
    IF child[id] = "running"
    THEN [type : {"Ok"}, data : Chunks] \cup [type : {"Ok(0)", "Err"}]
    ELSE [type : {"Ok(0)", "Err"}]

pty_reader(id) ==
    /\ kind[id] = "Local" /\ task[id] = "running"
    /\ \E result \in PtyReads(id) :
         CASE result.type = "Ok(0)" ->
                /\ Emit(id, <<ExitEvent(process_exited)>>)
                /\ task' = [task EXCEPT ![id] = "ended"]
                /\ UNCHANGED inbound
           [] result.type = "Err" ->
                /\ Emit(id, <<ErrorEvent>>)
                /\ task' = [task EXCEPT ![id] = "ended"]
                /\ UNCHANGED inbound
           [] OTHER ->
                /\ MayReceive(id)
                /\ inbound' = [inbound EXCEPT ![id] = Append(@, Utf8Lossy(result.data))]
                /\ Emit(id, <<OutputEvent(Utf8Lossy(result.data))>>)
                /\ UNCHANGED task
    /\ UNCHANGED <<next_id, sessions, senders, kind, write_q, resize_q, streaming_started,
                   pending_buffer, child, last>>

(***************************************************************************)
(* File-transfer session manager  (managers/transfer.rs)                   *)
(***************************************************************************)
\* (a path is a sequence of characters)
RootPath == <<"/">>
\* the directory the server puts the user in
Home == <<"/", "h">>

\* Option<String>
None == [some |-> FALSE]
Some(v) == [some |-> TRUE, value |-> v]

\* FileTransferManager::new: an empty registry; nothing transferred yet
FtInit ==
    /\ ft_next_id = 0
    /\ ft_sessions = <<>>
    /\ transfers = <<>>
    /\ progress = <<>>
    /\ protocol_lock = [id \in FtIds |-> 0]
    /\ home_resolved_for_root = [id \in FtIds |-> FALSE]
    /\ home_directory = [id \in FtIds |-> None]
    /\ cwd = [id \in FtIds |-> Home]
    /\ lists = <<>>

FtRegistered(id) == id \in DOMAIN ft_sessions

\* the frame of a file-manager call that only returns a value
FtReturnOnly(op, id, ret) ==
    /\ last' = Ret(op, id, ret)
    /\ UNCHANGED <<ft_next_id, ft_sessions, transfers, progress, protocol_lock>>
    /\ UNCHANGED listVars
    /\ UNCHANGED <<next_id, sessions, senders, kind, task, write_q, resize_q,
                   streaming_started, pending_buffer, child, inbound, log>>

\* sftp/session.rs SftpSession::new: open a channel, request the subsystem,
\* start the SFTP client
SftpFaults == {"channel_open", "request_subsystem", "sftp_init"}

\* ftp/session.rs FtpSession::new: connect, (FTPS: TLS upgrade), login, binary
\* transfer type; a failing pwd only leaves the home directory unknown
FtpFaults(use_tls) ==
    {"connect", "login", "transfer_type"} \cup (IF use_tls THEN {"into_secure"} ELSE {})

\* managers/transfer.rs create_session, the "sftp" arm up to the handle
sftp_transport(has_key, has_password, jumps_valid, jumps, target, fault) ==
    IF ~has_key /\ ~has_password
    THEN [ok |-> FALSE, err |-> "AuthenticationFailed"]
    ELSE IF jumps = <<>>
    THEN LET c == connect_direct(target, fault.hop = 0 /\ fault.step = "connect")
             a == authenticate(target, IF fault.hop = 0 THEN fault.step ELSE "ok")
         IN  IF ~c.ok THEN [ok |-> FALSE, err |-> "ConnectionFailed"]
             ELSE IF ~a.ok THEN [ok |-> FALSE, err |-> "AuthenticationFailed"]
             ELSE [ok |-> TRUE]
    ELSE IF ~jumps_valid
    THEN [ok |-> FALSE, err |-> "ConnectionFailed"]
    ELSE LET r == chain_execute(jumps, target, fault)
         IN  IF ~r.ok THEN [ok |-> FALSE, err |-> "ConnectionFailed"] ELSE [ok |-> TRUE]

\* managers/transfer.rs create_session: build the session for the connection
\* type, then insert it under the registry lock
create_session ==
    \E connection_type \in {"sftp", "ftp", "ftps", "other"} :
      LET op == "ft.create_session"
          Done(result) ==
            IF ~result.ok
            THEN FtReturnOnly(op, 0, result.err)
            ELSE LET id == ft_next_id + 1 IN
                 /\ ft_next_id < MaxSessions
                 /\ ft_next_id' = id
                 /\ ft_sessions' = Insert(ft_sessions, id, connection_type)
                 /\ last' = Ret(op, id, "Ok")
                 \* FtpSession::new keeps the answer to PWD, if there is one
                 /\ \E pwd_ok \in {ok \in BOOLEAN : connection_type # "sftp" \/ ~ok} :
                      home_directory' = [home_directory EXCEPT ![id] =
                                           IF pwd_ok THEN Some(cwd[id]) ELSE None]
                 /\ UNCHANGED <<home_resolved_for_root, cwd, lists>>
                 /\ UNCHANGED <<transfers, progress, protocol_lock>>
                 /\ UNCHANGED <<next_id, sessions, senders, kind, task, write_q, resize_q,
                                streaming_started, pending_buffer, child, inbound, log>>
      IN
      CASE connection_type = "sftp" ->
             \* (with a key path the password is not looked at: that input is
             \* drawn without one)
             \E has_key \in BOOLEAN : \E has_password \in {~has_key, FALSE} :
               IF ~has_key /\ ~has_password
               THEN Done(sftp_transport(FALSE, FALSE, TRUE, <<>>, CHOOSE h \in ManagerHosts : TRUE, NoFault))
               ELSE \E chain \in ManagerChains \ {<<>>} :
                      \E jumps_valid \in {v \in BOOLEAN : Len(chain) > 1 \/ v} :
                        \E fault \in IF ~jumps_valid THEN {NoFault}
                                      ELSE {f \in Faults(Len(chain)) : FaultPossible(Len(chain), f)}
                                             \cup [hop : {Len(chain)}, step : SftpFaults] :
                          LET t == sftp_transport(has_key, has_password, jumps_valid,
                                                  SubSeq(chain, 1, Len(chain) - 1),
                                                  chain[Len(chain)], fault)
                          IN  Done(IF ~t.ok THEN t
                                   ELSE IF fault.step \in SftpFaults
                                   THEN [ok |-> FALSE, err |-> "SftpError"]
                                   ELSE [ok |-> TRUE])
        [] connection_type \in {"ftp", "ftps"} ->
             \E fault \in FtpFaults(connection_type = "ftps") \cup {"none"} :
               Done(IF fault = "none" THEN [ok |-> TRUE]
                    ELSE [ok |-> FALSE,
                          err |-> IF fault = "login" THEN "AuthenticationFailed" ELSE "FtpError"])
        [] OTHER -> Done([ok |-> FALSE, err |-> "UnsupportedType"])

\* managers/transfer.rs get_session_arc: the Arc of the session, cloned under
\* the registry lock
get_session_arc(id) == IF FtRegistered(id) THEN [some |-> TRUE, type |-> ft_sessions[id]]
                       ELSE [some |-> FALSE]

\* a faulty variant of the file manager's close_session that fails on an id
\* that is not registered
ft_close_session_strict(id) ==
    /\ ft_sessions' = IF FtRegistered(id) THEN Remove(ft_sessions, id) ELSE ft_sessions
    /\ last' = Ret("ft.close_session", id, IF FtRegistered(id) THEN "Ok" ELSE NotFound)
    /\ UNCHANGED <<ft_next_id, transfers, progress, protocol_lock>>
    /\ UNCHANGED listVars
    /\ UNCHANGED <<next_id, sessions, senders, kind, task, write_q, resize_q,
                   streaming_started, pending_buffer, child, inbound, log>>

\* managers/transfer.rs close_session: remove the session from the registry
ft_close_session(id) ==
    /\ ft_sessions' = IF FtRegistered(id) THEN Remove(ft_sessions, id) ELSE ft_sessions
    /\ last' = Ret("ft.close_session", id, "Ok")
    /\ UNCHANGED <<ft_next_id, transfers, progress, protocol_lock>>
    /\ UNCHANGED listVars
    /\ UNCHANGED <<next_id, sessions, senders, kind, task, write_q, resize_q,
                   streaming_started, pending_buffer, child, inbound, log>>

(***************************************************************************)
(* Telnet codec  (telnet/protocol.rs)                                       *)
(***************************************************************************)
IAC == 255
DONT == 254
DO == 253
WONT == 252
WILL == 251
SB == 250
SE == 240
OPT_ECHO == 1
OPT_SGA == 3
OPT_TTYPE == 24
OPT_NAWS == 31
Byte == 0..255

\* b"xterm-256color"
TerminalType == <<120, 116, 101, 114, 109, 45, 50, 53, 54, 99, 111, 108, 111, 114>>

\* TelnetProtocol
TelnetProtocol(naws_enabled, sga_enabled, echo_enabled) ==
    [naws_enabled |-> naws_enabled, sga_enabled |-> sga_enabled, echo_enabled |-> echo_enabled]

\* the locals of process_data and the fields of self, before the first byte
ParseStart(self) ==
    [state |-> "Data", sb_option |-> 0, responses |-> <<>>, clean_data |-> <<>>,
     naws_requested |-> FALSE, self |-> self]

\* a faulty variant of process_byte that refuses every option
process_byte_refuses(p, byte) ==
    IF p.state = "Data"
    THEN (IF byte = IAC THEN [p EXCEPT !.state = "Iac"]
          ELSE [p EXCEPT !.clean_data = Append(@, byte)])
    ELSE IF p.state = "Iac"
    THEN (IF byte = IAC THEN [p EXCEPT !.clean_data = Append(@, IAC), !.state = "Data"]
          ELSE IF byte = WILL THEN [p EXCEPT !.state = "Will"]
          ELSE IF byte = DO THEN [p EXCEPT !.state = "Do"]
          ELSE [p EXCEPT !.state = "Data"])
    ELSE IF p.state = "Will"
    THEN [p EXCEPT !.responses = @ \o <<IAC, DONT, byte>>, !.state = "Data"]
    ELSE IF p.state = "Do"
    THEN [p EXCEPT !.responses = @ \o <<IAC, WONT, byte>>, !.state = "Data"]
    ELSE [p EXCEPT !.state = "Data"]

\* process_data: the body of the loop over the bytes
process_byte(p, byte) ==
    CASE p.state = "Data" ->
           IF byte = IAC THEN [p EXCEPT !.state = "Iac"]
           ELSE [p EXCEPT !.clean_data = Append(@, byte)]
      [] p.state = "Iac" ->
           IF byte = IAC THEN [p EXCEPT !.clean_data = Append(@, IAC), !.state = "Data"]
           ELSE IF byte = WILL THEN [p EXCEPT !.state = "Will"]
           ELSE IF byte = WONT THEN [p EXCEPT !.state = "Wont"]
           ELSE IF byte = DO THEN [p EXCEPT !.state = "Do"]
           ELSE IF byte = DONT THEN [p EXCEPT !.state = "Dont"]
           ELSE IF byte = SB THEN [p EXCEPT !.state = "Sb"]
           ELSE [p EXCEPT !.state = "Data"]
      [] p.state = "Will" ->
           IF byte = OPT_ECHO
           THEN [p EXCEPT !.self.echo_enabled = TRUE,
                          !.responses = @ \o <<IAC, DO, OPT_ECHO>>, !.state = "Data"]
           ELSE IF byte = OPT_SGA
           THEN [p EXCEPT !.self.sga_enabled = TRUE,
                          !.responses = @ \o <<IAC, DO, OPT_SGA>>, !.state = "Data"]
           ELSE [p EXCEPT !.responses = @ \o <<IAC, DONT, byte>>, !.state = "Data"]
      [] p.state = "Wont" ->
           IF byte = OPT_ECHO THEN [p EXCEPT !.self.echo_enabled = FALSE, !.state = "Data"]
           ELSE IF byte = OPT_SGA THEN [p EXCEPT !.self.sga_enabled = FALSE, !.state = "Data"]
           ELSE [p EXCEPT !.state = "Data"]
      [] p.state = "Do" ->
           IF byte = OPT_NAWS
           THEN [p EXCEPT !.self.naws_enabled = TRUE, !.naws_requested = TRUE,
                          !.responses = @ \o <<IAC, WILL, OPT_NAWS>>, !.state = "Data"]
           ELSE IF byte = OPT_TTYPE
           THEN [p EXCEPT !.responses = @ \o <<IAC, WILL, OPT_TTYPE>>, !.state = "Data"]
           ELSE IF byte = OPT_SGA
           THEN [p EXCEPT !.self.sga_enabled = TRUE,
                          !.responses = @ \o <<IAC, WILL, OPT_SGA>>, !.state = "Data"]
           ELSE [p EXCEPT !.responses = @ \o <<IAC, WONT, byte>>, !.state = "Data"]
      [] p.state = "Dont" ->
           LET q == IF byte = OPT_NAWS THEN [p EXCEPT !.self.naws_enabled = FALSE]
                    ELSE IF byte = OPT_SGA THEN [p EXCEPT !.self.sga_enabled = FALSE]
                    ELSE p
           IN  [q EXCEPT !.responses = @ \o <<IAC, WONT, byte>>, !.state = "Data"]
      [] p.state = "Sb" -> [p EXCEPT !.sb_option = byte, !.state = "SbData"]
      [] p.state = "SbData" ->
           IF byte = IAC THEN [p EXCEPT !.state = "SbIac"] ELSE p
      [] p.state = "SbIac" ->
           IF byte = SE
           THEN IF p.sb_option = OPT_TTYPE
                THEN [p EXCEPT !.responses = @ \o <<IAC, SB, OPT_TTYPE, 0>> \o TerminalType
                                                \o <<IAC, SE>>,
                               !.state = "Data"]
                ELSE [p EXCEPT !.state = "Data"]
           ELSE [p EXCEPT !.state = "SbData"]

\* process_data: the loop over the first n bytes of data
RECURSIVE parse_bytes(_, _, _)
parse_bytes(self, data, n) ==
    IF n = 0 THEN ParseStart(self)
    ELSE process_byte(parse_bytes(self, data, n - 1), data[n])

\* a faulty variant of process_data whose clean data is the chunk as received
process_data_unstripped(self, data) ==
    LET p == parse_bytes(self, data, Len(data)) IN
    [responses |-> p.responses, clean_data |-> data,
     naws_requested |-> p.naws_requested, self |-> p.self]

\* TelnetProtocol::process_data: (responses, clean_data, naws_requested), and
\* the fields of self afterwards
process_data(self, data) ==
    LET p == parse_bytes(self, data, Len(data)) IN
    [responses |-> p.responses, clean_data |-> p.clean_data,
     naws_requested |-> p.naws_requested, self |-> p.self]

\* a faulty variant of build_naws that does not escape a byte equal to IAC
build_naws_unescaped(cols, rows) ==
    <<IAC, SB, OPT_NAWS, (cols \div 256) % 256, cols % 256, (rows \div 256) % 256, rows % 256,
      IAC, SE>>

\* telnet/protocol.rs build_naws (cols and rows are u16)
build_naws(cols, rows) ==
    LET col_high == (cols \div 256) % 256
        col_low == cols % 256
        row_high == (rows \div 256) % 256
        row_low == rows % 256
        escaped(b) == IF b = IAC THEN <<b, IAC>> ELSE <<b>>
    IN  <<IAC, SB, OPT_NAWS>> \o escaped(col_high) \o escaped(col_low)
          \o escaped(row_high) \o escaped(row_low) \o <<IAC, SE>>

\* the bytes the chunks of the model are made of
TelnetBytes == {65, OPT_NAWS, SE, SB, DO, IAC}

\* the payloads of the subnegotiations of the model: none, SEND (1), IS (0),
\* each also followed by more bytes, a doubled IAC, and a window size
SubnegPayloads == {<<>>, <<1>>, <<0>>, <<1, 65>>, <<0, 65>>, <<1, IAC, IAC>>, <<0, 80, 0, 24>>}

\* the options of the subnegotiations of the model
SubnegOptions == {OPT_TTYPE, OPT_NAWS, OPT_ECHO}

\* IAC SB option payload IAC SE, alone and between data bytes
SubnegChunks ==
    {pre \o <<IAC, SB, option>> \o payload \o <<IAC, SE>> \o post :
        pre \in {<<>>, <<65>>}, option \in SubnegOptions,
        payload \in SubnegPayloads, post \in {<<>>, <<66>>}}

\* the chunks given to process_data: all short chunks over TelnetBytes,
\* every negotiation command with every option byte, and the subnegotiations
TelnetChunks ==
    SeqsUpTo(TelnetBytes, MaxChunk)
      \cup {<<IAC, verb, x>> : verb \in {WILL, WONT, DO, DONT}, x \in Byte}
      \cup SubnegChunks

\* the window sizes given to build_naws: the 16-bit values made of these bytes
NawsBytes == {0, 24, 80, 254, 255}
Dims == {hi * 256 + lo : hi \in NawsBytes, lo \in NawsBytes}

NotCalled == [called |-> FALSE]

TelnetIdle ==
    /\ proto = TelnetProtocol(FALSE, FALSE, FALSE)
    /\ tn_data = <<>>
    /\ tn_out = NotCalled
    /\ naws_size = <<0, 0>>
    /\ naws_msg = NotCalled

\* a codec in any state of its flags is about to be given a chunk, or a window
\* size is about to be encoded
TelnetInit ==
    \/ /\ proto \in {TelnetProtocol(n, s, e) : n \in BOOLEAN, s \in BOOLEAN, e \in BOOLEAN}
       /\ tn_data \in TelnetChunks
       /\ tn_out = NotCalled
       /\ naws_size = <<0, 0>>
       /\ naws_msg = NotCalled
    \/ /\ proto = TelnetProtocol(FALSE, FALSE, FALSE)
       /\ tn_data = <<>>
       /\ tn_out = NotCalled
       /\ naws_size \in Dims \X Dims
       /\ naws_msg = NotCalled

\* a faulty variant of ProcessData in which the codec does not keep the flags
\* the chunk has changed
ProcessData_flags_kept ==
    /\ tn_out = NotCalled
    /\ LET r == process_data(proto, tn_data) IN
       tn_out' = [called |-> TRUE, before |-> proto, responses |-> r.responses,
                  clean_data |-> r.clean_data, naws_requested |-> r.naws_requested]
    /\ UNCHANGED <<proto, tn_data, naws_size, naws_msg>>
    /\ UNCHANGED <<chainVars, termVars, ftVars, nameVars, lockVars, listVars, loginVars, parseVars, execVars, chmodVars, loopVars, streamVars, uploadVars, statVars>>

\* proto.process_data(data)
ProcessData ==
    /\ tn_out = NotCalled
    /\ LET r == process_data(proto, tn_data) IN
       /\ tn_out' = [called |-> TRUE, before |-> proto, responses |-> r.responses,
                     clean_data |-> r.clean_data, naws_requested |-> r.naws_requested]
       /\ proto' = r.self
    /\ UNCHANGED <<tn_data, naws_size, naws_msg>>
    /\ UNCHANGED <<chainVars, termVars, ftVars, nameVars, lockVars, listVars, loginVars, parseVars, execVars, chmodVars, loopVars, streamVars, uploadVars, statVars>>

\* build_naws(cols, rows)
BuildNaws ==
    /\ naws_msg = NotCalled
    /\ naws_msg' = [called |-> TRUE, msg |-> build_naws(naws_size[1], naws_size[2])]
    /\ UNCHANGED <<proto, tn_data, tn_out, naws_size>>
    /\ UNCHANGED <<chainVars, termVars, ftVars, nameVars, lockVars, listVars, loginVars, parseVars, execVars, chmodVars, loopVars, streamVars, uploadVars, statVars>>


\* the byte streams a server sends: all short streams over TelnetBytes, a
\* refused option, a doubled IAC between data, and subnegotiations
Streams ==
    SeqsUpTo(TelnetBytes, MaxStream)
      \cup { <<IAC, WILL, OPT_ECHO, 65>>, <<65, IAC, IAC, 66>>,
             <<IAC, SB, OPT_TTYPE, 1, IAC, SE>>, <<IAC, SB, OPT_NAWS, IAC, IAC, IAC, SE, 65>> }

\* no stream is being read
StreamIdle ==
    /\ stream = <<>>
    /\ fed = 0
    /\ cuts = {}
    /\ codec = TelnetProtocol(FALSE, FALSE, FALSE)
    /\ cleaned = <<>>
    /\ responded = <<>>

\* TelnetProtocol::new(), and a server about to send a stream
StreamInit ==
    /\ stream \in Streams
    /\ fed = 0
    /\ cuts = {}
    /\ codec = TelnetProtocol(FALSE, FALSE, FALSE)
    /\ cleaned = <<>>
    /\ responded = <<>>

\* io_loop: reader.read returns the next n bytes of the stream, which are
\* given to protocol.process_data
read_chunk(n) ==
    /\ fed + n <= Len(stream)
    /\ LET r == process_data(codec, SubSeq(stream, fed + 1, fed + n)) IN
       /\ codec' = r.self
       /\ cleaned' = cleaned \o r.clean_data
       /\ responded' = responded \o r.responses
    /\ fed' = fed + n
    /\ cuts' = cuts \cup {fed + n}
    /\ UNCHANGED stream
    /\ UNCHANGED <<chainVars, termVars, ftVars, nameVars, lockVars, listVars, telnetVars, loginVars, parseVars, execVars, chmodVars, loopVars, uploadVars, statVars>>


(***************************************************************************)
(* Telnet auto-login  (telnet/login.rs)                                     *)
(***************************************************************************)
\* (a text is a sequence of characters)
UpperLetters == <<"A", "B", "C", "D", "E", "F", "G", "H", "I", "J", "K", "L", "M",
                  "N", "O", "P", "Q", "R", "S", "T", "U", "V", "W", "X", "Y", "Z">>
LowerLetters == <<"a", "b", "c", "d", "e", "f", "g", "h", "i", "j", "k", "l", "m",
                  "n", "o", "p", "q", "r", "s", "t", "u", "v", "w", "x", "y", "z">>

\* str::to_lowercase on a text of letters, digits and punctuation
text_to_lowercase(text) ==
    [i \in 1..Len(text) |->
       IF \E k \in 1..26 : UpperLetters[k] = text[i]
       THEN LowerLetters[CHOOSE k \in 1..26 : UpperLetters[k] = text[i]]
       ELSE text[i]]

\* str::contains(&str)
contains(text, pattern) ==
    \E i \in 0..(Len(text) - Len(pattern)) : SubSeq(text, i + 1, i + Len(pattern)) = pattern

LOGIN_PATTERNS ==
    << <<"l", "o", "g", "i", "n", ":">>,
       <<"u", "s", "e", "r", "n", "a", "m", "e", ":">>,
       <<"u", "s", "e", "r", ":">>,
       <<"u", "s", "e", "r", " ", "n", "a", "m", "e", ":">>,
       <<"l", "o", "g", "i", "n", " ", "n", "a", "m", "e", ":">>,
       <<"a", "c", "c", "o", "u", "n", "t", ":">>,
       <<"l", "o", "g", "o", "n", ":">> >>

PASSWORD_PATTERNS ==
    << <<"p", "a", "s", "s", "w", "o", "r", "d", ":">>,
       <<"p", "a", "s", "s", "w", "d", ":">>,
       <<"p", "a", "s", "s", ":">>,
       <<"s", "e", "c", "r", "e", "t", ":">> >>

\* telnet/login.rs detect_prompt: the password patterns are looked for first
detect_prompt(buffer) ==
    LET lower == text_to_lowercase(buffer) IN
    IF \E k \in DOMAIN PASSWORD_PATTERNS : contains(lower, PASSWORD_PATTERNS[k])
    THEN "Password"
    ELSE IF \E k \in DOMAIN LOGIN_PATTERNS : contains(lower, LOGIN_PATTERNS[k])
    THEN "Login"
    ELSE "None"

\* U+FFFD REPLACEMENT CHARACTER, which String::from_utf8_lossy puts in the
\* place of bytes that are not UTF-8; one character of a text
ReplacementChar == "U+FFFD"

\* char::len_utf8 for the characters of the model: three bytes for U+FFFD,
\* one for a letter, a digit or punctuation
len_utf8(c) == IF c = ReplacementChar THEN 3 ELSE 1

\* str::len: the length of a text in bytes
str_len(text) ==
    Len(text) + (len_utf8(ReplacementChar) - 1)
                   * Cardinality({i \in DOMAIN text : text[i] = ReplacementChar})

\* the number of whole characters of the text in its first index bytes: the
\* largest n in lo..hi whose first n characters take at most index bytes
RECURSIVE chars_before(_, _, _, _)
chars_before(text, index, lo, hi) ==
    IF lo >= hi THEN lo
    ELSE LET mid == (lo + hi + 1) \div 2 IN
         IF str_len(SubSeq(text, 1, mid)) <= index
         THEN chars_before(text, index, mid, hi)
         ELSE chars_before(text, index, lo, mid - 1)

\* str::is_char_boundary
is_char_boundary(text, index) ==
    str_len(SubSeq(text, 1, chars_before(text, index, 0, Len(text)))) = index

\* &text[index..] for an index that is a char boundary
slice_from(text, index) ==
    SubSeq(text, chars_before(text, index, 0, Len(text)) + 1, Len(text))

\* AutoLogin.max_buffer_size
max_buffer_size == 1024

\* a faulty variant of AutoLogin_new that waits for a login prompt whether or
\* not there is a username
AutoLogin_new_awaiting(username, password) ==
    [state |-> "AwaitingLogin", username |-> username, password |-> password, buffer |-> <<>>]

\* AutoLogin::new
AutoLogin_new(username, password) ==
    [state |-> IF username.some THEN "AwaitingLogin" ELSE "Disabled",
     username |-> username, password |-> password, buffer |-> <<>>]

CRLF == <<"\r", "\n">>

\* a faulty variant of process that takes the login for done once the username
\* is sent
process_one_step(self, data) ==
    IF self.state \in {"Disabled", "Authenticated"}
    THEN [self |-> self, response |-> None, panicked |-> FALSE]
    ELSE LET buffer == self.buffer \o data IN
         IF detect_prompt(buffer) # "None" /\ self.username.some
         THEN [self |-> [self EXCEPT !.state = "Authenticated", !.buffer = <<>>],
               response |-> Some(self.username.value \o CRLF), panicked |-> FALSE]
         ELSE [self |-> [self EXCEPT !.buffer = buffer], response |-> None,
               panicked |-> FALSE]

\* AutoLogin::process: the handler afterwards and the bytes to send, if any;
\* panicked when the slice of the buffer does not start at a char boundary
process(self, data) ==
    IF self.state = "Disabled" \/ self.state = "Authenticated"
    THEN [self |-> self, response |-> None, panicked |-> FALSE]
    ELSE LET pushed == self.buffer \o data
             over == str_len(pushed) > max_buffer_size
             start == str_len(pushed) - (max_buffer_size \div 2)
             buffer == IF over THEN slice_from(pushed, start) ELSE pushed
             kept == [self EXCEPT !.buffer = buffer]
         IN  IF over /\ ~is_char_boundary(pushed, start)
             THEN [self |-> [self EXCEPT !.buffer = pushed], response |-> None,
                   panicked |-> TRUE]
             ELSE IF self.state = "AwaitingLogin" /\ detect_prompt(buffer) = "Login"
                     /\ self.username.some
             THEN [self |-> [kept EXCEPT !.state = IF self.password.some
                                                   THEN "AwaitingPassword"
                                                   ELSE "Authenticated",
                                         !.buffer = <<>>],
                   response |-> Some(self.username.value \o CRLF), panicked |-> FALSE]
             ELSE IF self.state = "AwaitingPassword" /\ detect_prompt(buffer) = "Password"
                     /\ self.password.some
             THEN [self |-> [kept EXCEPT !.state = "Authenticated", !.buffer = <<>>],
                   response |-> Some(self.password.value \o CRLF), panicked |-> FALSE]
             ELSE [self |-> kept, response |-> None, panicked |-> FALSE]

\* the credentials of the model
Admin == <<"a", "d", "m", "i", "n">>
Secret == <<"s", "e", "c", "r", "e", "t">>

\* the texts fed to process: whole prompts, a prompt in two pieces, other text
LoginTexts ==
    { <<"l", "o", "g", "i", "n", ":", " ">>,
      <<"P", "a", "s", "s", "w", "o", "r", "d", ":", " ">>,
      <<"L", "O", "G">>,
      <<"I", "N", ":">>,
      <<"h", "i">> }

LoginIdle ==
    /\ login = AutoLogin_new(None, None)
    /\ login_out = NotCalled
    /\ login_calls = 0
    /\ login_sent = <<>>

\* AutoLogin::new(username, password) with or without each credential
LoginInit ==
    /\ \E username \in {None, Some(Admin)}, password \in {None, Some(Secret)} :
         login = AutoLogin_new(username, password)
    /\ login_out = NotCalled
    /\ login_calls = 0
    /\ login_sent = <<>>

\* a faulty variant of Process in which the handler stays in the state it
\* was in
Process_state_kept ==
    /\ login_calls < MaxCalls
    /\ \E data \in LoginTexts :
         LET r == process(login, data) IN
         /\ login' = [r.self EXCEPT !.state = login.state]
         /\ login_out' = [called |-> TRUE, before |-> login, data |-> data,
                          response |-> r.response, panicked |-> r.panicked]
         /\ login_sent' = IF r.response.some THEN Append(login_sent, r.response.value)
                          ELSE login_sent
    /\ login_calls' = login_calls + 1
    /\ UNCHANGED <<chainVars, termVars, ftVars, nameVars, lockVars, listVars, telnetVars, parseVars, execVars, chmodVars, loopVars, streamVars, uploadVars, statVars>>

\* login.process(data)
Process ==
    /\ login_calls < MaxCalls
    /\ ~(login_out.called /\ login_out.panicked)
    /\ \E data \in LoginTexts :
         LET r == process(login, data) IN
         /\ login' = r.self
         /\ login_out' = [called |-> TRUE, before |-> login, data |-> data,
                          response |-> r.response, panicked |-> r.panicked]
         /\ login_sent' = IF r.response.some THEN Append(login_sent, r.response.value)
                          ELSE login_sent
    /\ login_calls' = login_calls + 1
    /\ UNCHANGED <<chainVars, termVars, ftVars, nameVars, lockVars, listVars, telnetVars, parseVars, execVars, chmodVars, loopVars, streamVars, uploadVars, statVars>>

\* n times the character c
Repeat(c, n) == [i \in 1..n |-> c]

LoginPrompt == <<"l", "o", "g", "i", "n", ":", " ">>
PasswordPrompt == <<"P", "a", "s", "s", "w", "o", "r", "d", ":", " ">>

\* the long texts fed to process: half the cap and one byte more than the cap
\* of plain text, a prompt before and a prompt after more than a cap of plain
\* text, and more than a cap of text with three-byte characters, with plain
\* characters at its end and without; and the two prompts
LongTexts ==
    { Repeat("x", max_buffer_size \div 2),
      Repeat("x", max_buffer_size + 1),
      LoginPrompt \o Repeat("x", max_buffer_size + 1),
      Repeat("x", max_buffer_size + 1) \o LoginPrompt,
      Repeat(ReplacementChar, 342) \o <<"x", "x">>,
      Repeat(ReplacementChar, 342),
      LoginPrompt,
      PasswordPrompt }

\* login.process(data) with the long texts
ProcessLong ==
    /\ login_calls < MaxLongCalls
    /\ ~(login_out.called /\ login_out.panicked)
    /\ \E data \in LongTexts :
         LET r == process(login, data) IN
         /\ login' = r.self
         /\ login_out' = [called |-> TRUE, before |-> login, data |-> data,
                          response |-> r.response, panicked |-> r.panicked]
         /\ login_sent' = IF r.response.some THEN Append(login_sent, r.response.value)
                          ELSE login_sent
    /\ login_calls' = login_calls + 1
    /\ UNCHANGED <<chainVars, termVars, ftVars, nameVars, lockVars, listVars, telnetVars, parseVars, execVars, chmodVars, loopVars, streamVars, uploadVars, statVars>>

\* no line of a LIST answer has been parsed
ParseIdle ==
    /\ list_line = <<>>
    /\ list_base_path = RootPath
    /\ parsed = NotCalled

(***************************************************************************)
(* SSH command execution  (ssh/terminal.rs execute_command)                *)
(***************************************************************************)
\* the channel opened by connect for the PTY and the shell
PtyChannel == 1

\* what channel.wait() yields on an exec channel
ExecMsg(type, data, exit_status) == [type |-> type, data |-> data, exit_status |-> exit_status]

\* the messages that precede the close of an exec channel
ExecMsgs ==
    {ExecMsg(t, d, 0) : t \in {"Data", "ExtendedData"}, d \in Chunks}
      \cup {ExecMsg("ExitStatus", <<>>, s) : s \in {0, 1}}
      \cup {ExecMsg("Eof", <<>>, 0), ExecMsg("Other", <<>>, 0)}

\* the end of an exec channel: Some(ChannelMsg::Close), or None
ExecEnds == {ExecMsg("Close", <<>>, 0), ExecMsg("None", <<>>, 0)}

\* what one exec channel delivers: at most MaxMsgs messages, of which at most
\* one is the exit status, and then its end
Arrivals ==
    {s \o <<e>> : s \in {t \in SeqsUpTo(ExecMsgs, MaxMsgs) :
                           Cardinality({i \in 1..Len(t) : t[i].type = "ExitStatus"}) <= 1},
                  e \in ExecEnds}

\* Result<String, SshError>: Ok(text), Err(CommandFailed) built from the
\* status and the text, or the error of a `?`
ExecRet(ok, variant, status, text) == [ok |-> ok, variant |-> variant, status |-> status, text |-> text]
NoRet == ExecRet(FALSE, "none", 0, <<>>)

\* no call of execute_command has been made
NoExec ==
    [pc |-> "idle", channel |-> 0, pos |-> 0, output |-> <<>>, error_output |-> <<>>,
     exit_status_received |-> FALSE, ret |-> NoRet]

\* execute_command: the locals before the loop, on the exec channel
ExecStart(channel) ==
    [pc |-> "waiting", channel |-> channel, pos |-> 0, output |-> <<>>, error_output |-> <<>>,
     exit_status_received |-> FALSE, ret |-> NoRet]

\* execute_command: one iteration of the loop over channel.wait()
exec_on_msg(e, msg) ==
    LET n == [e EXCEPT !.pos = @ + 1] IN
    CASE msg.type = "Data" -> [n EXCEPT !.output = @ \o Utf8Lossy(msg.data)]
      [] msg.type = "ExtendedData" -> [n EXCEPT !.error_output = @ \o Utf8Lossy(msg.data)]
      [] msg.type = "ExitStatus" ->
           IF msg.exit_status # 0
           THEN [n EXCEPT !.exit_status_received = TRUE, !.pc = "returned",
                          !.ret = ExecRet(FALSE, "CommandFailed", msg.exit_status, e.error_output)]
           ELSE [n EXCEPT !.exit_status_received = TRUE]
      [] msg.type \in {"Close", "None"} ->
           [n EXCEPT !.pc = "returned", !.ret = ExecRet(TRUE, "", 0, e.output)]
      [] OTHER -> n

\* the SSH session is connected and no command has been executed
ExecIdle ==
    /\ channels_opened = PtyChannel
    /\ exec_in = <<>>
    /\ exec = NoExec

\* ssh/terminal.rs execute_command up to the loop: channel_open_session, then
\* exec; either can fail, which returns the error
ssh_execute_command ==
    /\ exec.pc # "waiting"
    /\ channels_opened < PtyChannel + MaxExecs
    /\ \E open_ok \in BOOLEAN, exec_ok \in BOOLEAN, arrival \in Arrivals :
         IF ~open_ok
         THEN /\ arrival = <<ExecMsg("None", <<>>, 0)>>
              /\ exec_ok
              /\ exec' = [NoExec EXCEPT !.pc = "returned",
                                        !.ret = ExecRet(FALSE, "ChannelError", 0, <<>>)]
              /\ exec_in' = <<>>
              /\ UNCHANGED channels_opened
         ELSE /\ channels_opened' = channels_opened + 1
              /\ IF ~exec_ok
                 THEN /\ arrival = <<ExecMsg("None", <<>>, 0)>>
                      /\ exec' = [ExecStart(channels_opened + 1) EXCEPT
                                    !.pc = "returned",
                                    !.ret = ExecRet(FALSE, "ProtocolError", 0, <<>>)]
                      /\ exec_in' = <<>>
                 ELSE /\ exec' = ExecStart(channels_opened + 1)
                      /\ exec_in' = arrival
    /\ UNCHANGED <<chainVars, termVars, ftVars, nameVars, lockVars, listVars, telnetVars, loginVars, parseVars, chmodVars, loopVars, streamVars, uploadVars, statVars>>

\* execute_command: channel.wait() yields the next message
ssh_execute_wait ==
    /\ exec.pc = "waiting"
    /\ exec' = exec_on_msg(exec, exec_in[exec.pos + 1])
    /\ UNCHANGED <<channels_opened, exec_in>>
    /\ UNCHANGED <<chainVars, termVars, ftVars, nameVars, lockVars, listVars, telnetVars, loginVars, parseVars, chmodVars, loopVars, streamVars, uploadVars, statVars>>

(***************************************************************************)
(* SFTP chmod  (sftp/session.rs chmod)                                     *)
(***************************************************************************)
\* u32 `&`, `|` and `a & !b`, bit by bit
RECURSIVE BitAnd(_, _)
BitAnd(a, b) ==
    IF a = 0 \/ b = 0 THEN 0
    ELSE 2 * BitAnd(a \div 2, b \div 2) + (a % 2) * (b % 2)

RECURSIVE BitOr(_, _)
BitOr(a, b) ==
    IF a = 0 THEN b ELSE IF b = 0 THEN a
    ELSE 2 * BitOr(a \div 2, b \div 2) + (IF a % 2 = 1 \/ b % 2 = 1 THEN 1 ELSE 0)

RECURSIVE BitAndNot(_, _)
BitAndNot(a, b) ==
    IF a = 0 THEN 0
    ELSE 2 * BitAndNot(a \div 2, b \div 2) + (a % 2) * (1 - (b % 2))

\* 0o777
PermissionBits == 511

\* a faulty variant of new_perms that sends the requested mode as it is
new_perms_as_requested(current_perms, mode) ==
    mode

\* chmod: file_type_bits | (mode & 0o777), with
\* file_type_bits = current_perms & !0o777
new_perms(current_perms, mode) ==
    BitOr(BitAndNot(current_perms, PermissionBits), BitAnd(mode, PermissionBits))

\* modes of remote files: 0o100644 (regular file), 0o040755 (directory),
\* 0o104755 (setuid file), 0o120777 (symlink), 0o000600 (no type bits)
FileModes == {33188, 16877, 35309, 41471, 384}

\* requested modes: 0o644, 0o755, 0o000, 0o777, 0o4755, 0o1000, 0o100644
RequestedModes == {420, 493, 0, 511, 2541, 512, 33188}

\* a call of chmod: its argument, what the first metadata reply held, the
\* permissions of the set_metadata request, the request that failed, the
\* return value, and whether the re-read succeeded
ChmodCall(mode, current_perms, sent, failed, ret, verified) ==
    [called |-> TRUE, mode |-> mode, current_perms |-> current_perms, sent |-> sent,
     failed |-> failed, ret |-> ret, verified |-> verified]

NoChmod ==
    [called |-> FALSE, mode |-> 0, current_perms |-> 0, sent |-> None, failed |-> "none",
     ret |-> "Ok", verified |-> FALSE]

ChmodIdle ==
    /\ file_mode = 33188
    /\ chmod_out = NoChmod
    /\ chmod_calls = 0

\* a remote file of any kind; chmod has not been called
ChmodInit ==
    /\ file_mode \in FileModes
    /\ chmod_out = NoChmod
    /\ chmod_calls = 0

\* sftp/session.rs chmod, under the guard of self.sftp: metadata (an error is
\* returned; a reply without permissions counts as 0), set_metadata with the
\* combined permissions (an error is returned), then metadata again, whose
\* failure or mismatch is only printed
chmod(mode) ==
    /\ chmod_calls < MaxChmods
    /\ chmod_calls' = chmod_calls + 1
    /\ \E metadata_ok \in BOOLEAN, has_permissions \in BOOLEAN, set_ok \in BOOLEAN,
          verify_ok \in BOOLEAN :
         LET current_perms == IF has_permissions THEN file_mode ELSE 0
             perms == new_perms(current_perms, mode)
         IN  IF ~metadata_ok
             THEN /\ has_permissions /\ set_ok /\ verify_ok
                  /\ chmod_out' = ChmodCall(mode, 0, None, "metadata", "Err", FALSE)
                  /\ UNCHANGED file_mode
             ELSE IF ~set_ok
             THEN /\ verify_ok
                  /\ chmod_out' = ChmodCall(mode, current_perms, Some(perms), "set_metadata", "Err", FALSE)
                  /\ UNCHANGED file_mode
             ELSE /\ chmod_out' = ChmodCall(mode, current_perms, Some(perms), "none", "Ok", verify_ok)
                  /\ file_mode' = perms
    /\ UNCHANGED <<chainVars, termVars, ftVars, nameVars, lockVars, listVars, telnetVars, loginVars, parseVars, execVars, loopVars, streamVars, uploadVars, statVars>>

(***************************************************************************)
(* Telnet session loop with its codec  (telnet/session.rs io_loop)         *)
(***************************************************************************)
\* the terminal sizes of the model: the default 80x24, another size, and one
\* whose bytes need escaping
LoopSizes == {<<80, 24>>, <<100, 40>>, <<255, 255>>}

\* the chunks read from the socket: NAWS requested, NAWS revoked, both in one
\* chunk in either order, text, another option, text followed by a request
LoopChunks ==
    { <<IAC, DO, OPT_NAWS>>, <<IAC, DONT, OPT_NAWS>>,
      <<IAC, DO, OPT_NAWS, IAC, DONT, OPT_NAWS>>,
      <<IAC, DONT, OPT_NAWS, IAC, DO, OPT_NAWS>>,
      <<65>>, <<IAC, WILL, OPT_ECHO>>, <<65, IAC, DO, OPT_NAWS>> }

\* writer.write_all(buf): the buffer reaches the socket, or the write fails
write_all(out, buf, write_ok) == IF write_ok THEN Append(out, buf) ELSE out

\* no Telnet loop is running
LoopIdle ==
    /\ protocol = TelnetProtocol(FALSE, FALSE, FALSE)
    /\ current_cols = 80 /\ current_rows = 24
    /\ writer = <<>>
    /\ loop_pc = "ended"
    /\ loop_steps = 0

\* io_loop before its first select: TelnetProtocol::new(), the size of the
\* configuration, nothing written
LoopInit ==
    /\ protocol = TelnetProtocol(FALSE, FALSE, FALSE)
    /\ \E size \in LoopSizes : current_cols = size[1] /\ current_rows = size[2]
    /\ writer = <<>>
    /\ loop_pc = "running"
    /\ loop_steps = 0

LoopGuard ==
    /\ loop_pc = "running"
    /\ loop_steps < MaxLoopSteps
    /\ loop_steps' = loop_steps + 1

\* the write arm: write_all and flush; an error ends the loop
loop_write(data) ==
    /\ LoopGuard
    /\ \E write_ok \in BOOLEAN, flush_ok \in BOOLEAN :
         /\ writer' = write_all(writer, data, write_ok)
         /\ loop_pc' = IF write_ok /\ flush_ok THEN "running" ELSE "ended"
         /\ (~write_ok => flush_ok)
    /\ UNCHANGED <<protocol, current_cols, current_rows>>
    /\ UNCHANGED <<chainVars, termVars, ftVars, nameVars, lockVars, listVars, telnetVars, loginVars, parseVars, execVars, chmodVars, streamVars, uploadVars, statVars>>

\* the resize arm: track the size; send NAWS if the option is enabled (a failed
\* write is only logged)
loop_resize(cols, rows) ==
    /\ LoopGuard
    /\ current_cols' = cols /\ current_rows' = rows
    /\ \E write_ok \in BOOLEAN :
         IF protocol.naws_enabled
         THEN writer' = write_all(writer, build_naws(cols, rows), write_ok)
         ELSE write_ok /\ UNCHANGED writer
    /\ UNCHANGED <<protocol, loop_pc>>
    /\ UNCHANGED <<chainVars, termVars, ftVars, nameVars, lockVars, listVars, telnetVars, loginVars, parseVars, execVars, chmodVars, streamVars, uploadVars, statVars>>

\* the read arm, Ok(n): the codec processes the chunk; the responses are
\* written if there are any; the window size is written if the codec says
\* NAWS was requested (failed writes are only logged).  The clean data then
\* goes to the auto-login handler, which is disabled for a session without
\* credentials, and to the consumer (io_loop_read)
loop_read(data) ==
    /\ LoopGuard
    /\ \E write_ok \in BOOLEAN :
         LET r == process_data(protocol, data)
             replied == IF r.responses # <<>> THEN write_all(writer, r.responses, write_ok)
                        ELSE writer
         IN  /\ protocol' = r.self
             /\ writer' = IF r.naws_requested
                          THEN write_all(replied, build_naws(current_cols, current_rows), write_ok)
                          ELSE replied
             /\ (r.responses = <<>> /\ ~r.naws_requested) => write_ok
    /\ UNCHANGED <<current_cols, current_rows, loop_pc>>
    /\ UNCHANGED <<chainVars, termVars, ftVars, nameVars, lockVars, listVars, telnetVars, loginVars, parseVars, execVars, chmodVars, streamVars, uploadVars, statVars>>

\* the read arm, Ok(0) or Err: the exit event is emitted and the loop ends
loop_read_end ==
    /\ LoopGuard
    /\ loop_pc' = "ended"
    /\ UNCHANGED <<protocol, current_cols, current_rows, writer>>
    /\ UNCHANGED <<chainVars, termVars, ftVars, nameVars, lockVars, listVars, telnetVars, loginVars, parseVars, execVars, chmodVars, streamVars, uploadVars, statVars>>

(***************************************************************************)
(* Names of uploaded files  (managers/transfer.rs generate_unique_filename) *)
(***************************************************************************)
\* (a name is a sequence of characters)
\* char::to_lowercase on the characters of the model
Lower(c) == CASE c = "A" -> "a" [] c = "T" -> "t" [] OTHER -> c

\* str::to_lowercase
to_lowercase(name) == [i \in 1..Len(name) |-> Lower(name[i])]

\* str::rfind(char): the last position of the character, 0 for None
rfind(name, c) ==
    LET at == {i \in 1..Len(name) : name[i] = c}
    IN  IF at = {} THEN 0 ELSE CHOOSE i \in at : \A k \in at : k <= i

DigitChars == <<"0", "1", "2", "3", "4", "5", "6", "7", "8", "9">>

RECURSIVE Display(_)
\* the decimal text of an unsigned integer ({} in format!)
Display(n) ==
    IF n < 10 THEN <<DigitChars[n + 1]>>
    ELSE Display(n \div 10) \o <<DigitChars[(n % 10) + 1]>>

\* format!("{}{} ({}){}", name_without_ext, "", counter, ext)
Numbered(name_without_ext, counter, ext) ==
    name_without_ext \o <<" ", "(">> \o Display(counter) \o <<")">> \o ext

\* format!("{}_{}{}", name_without_ext, secs, ext)
Stamped(name_without_ext, secs, ext) ==
    name_without_ext \o <<"_">> \o Display(secs) \o ext

\* the lower-cased names of the entries that are not directories
existing_names(files) == {to_lowercase(f.name) : f \in {g \in files : ~g.is_directory}}

RECURSIVE first_free(_, _, _, _, _)
\* the first value of the counter in lo..hi whose numbered name is not taken,
\* 0 if there is none (the loop tries the values in increasing order; the
\* range is halved to keep the evaluation shallow)
first_free(name_without_ext, ext, names, lo, hi) ==
    IF lo = hi
    THEN IF to_lowercase(Numbered(name_without_ext, lo, ext)) \notin names THEN lo ELSE 0
    ELSE LET mid == (lo + hi) \div 2
             low == first_free(name_without_ext, ext, names, lo, mid)
         IN  IF low # 0 THEN low
             ELSE first_free(name_without_ext, ext, names, mid + 1, hi)

\* the loop of generate_unique_filename: the counter runs from 1; once it
\* exceeds MaxAttempts the name gets the time stamp instead
find_unique(name_without_ext, ext, names, secs) ==
    LET counter == first_free(name_without_ext, ext, names, 1, MaxAttempts)
    IN  IF counter # 0 THEN Numbered(name_without_ext, counter, ext)
        ELSE Stamped(name_without_ext, secs, ext)

\* a faulty variant of generate_unique_filename that compares the base name
\* with the existing names as they are written
generate_unique_filename_exact_case(base, files, secs) ==
    LET names == existing_names(files)
        dot_pos == rfind(base, ".")
        name_without_ext == IF dot_pos = 0 THEN base ELSE SubSeq(base, 1, dot_pos - 1)
        ext == IF dot_pos = 0 THEN <<>> ELSE SubSeq(base, dot_pos, Len(base))
    IN  IF base \notin {f.name : f \in {g \in files : ~g.is_directory}} THEN base
        ELSE find_unique(name_without_ext, ext, names, secs)

\* managers/transfer.rs generate_unique_filename; secs is what the system
\* clock shows when the fallback reads it
generate_unique_filename(base, files, secs) ==
    LET names == existing_names(files)
        dot_pos == rfind(base, ".")
        name_without_ext == IF dot_pos = 0 THEN base ELSE SubSeq(base, 1, dot_pos - 1)
        ext == IF dot_pos = 0 THEN <<>> ELSE SubSeq(base, dot_pos, Len(base))
    IN  IF to_lowercase(base) \notin names THEN base
        ELSE find_unique(name_without_ext, ext, names, secs)

\* core/session.rs FileInfo, the fields the function reads
FileInfo(name, is_directory) == [name |-> name, is_directory |-> is_directory]

\* the names uploaded: with an extension, in upper case, without extension,
\* a dot file, with two dots
BaseNames == { <<"a", ".", "t">>, <<"A", ".", "T">>, <<"a">>, <<".", "t">>,
               <<"a", ".", "a", ".", "t">> }

\* the entries a listing is drawn from
EntryPool ==
    { FileInfo(n, d) : n \in BaseNames \cup { Numbered(<<"a">>, 1, <<".", "t">>),
                                              Numbered(<<"A">>, 2, <<".", "T">>),
                                              Numbered(<<"a">>, 1, <<>>),
                                              Numbered(<<>>, 1, <<".", "t">>) },
                      d \in BOOLEAN }

\* a directory that holds a.t and every numbered variant the function tries
Crowded ==
    { FileInfo(<<"a", ".", "t">>, FALSE) }
      \cup { FileInfo(Numbered(<<"a">>, n, <<".", "t">>), FALSE) : n \in 1..MaxAttempts }

\* what the system clock can show
Clock == {7, 1700000000}

\* the crowded directory when it also holds the files a_<secs>.t
CrowdedStamped ==
    Crowded \cup { FileInfo(Stamped(<<"a">>, secs, <<".", "t">>), FALSE) : secs \in Clock }

\* the listings: up to MaxEntries entries of the pool, and the crowded ones
Listings ==
    { l \in SUBSET EntryPool : Cardinality(l) <= MaxEntries } \cup { Crowded, CrowdedStamped }

NoName == <<"?">>

\* the uploads of one file name into one directory
UploadIds == 1..MaxUploads

\* the file name every upload of the model asks for
UploadName == <<"a", ".", "t">>

\* upload_file has not been called for the upload
NotStarted == [pc |-> "new"]

\* no upload is under way
UploadIdle ==
    /\ remote_files = {}
    /\ uploads = [tid \in UploadIds |-> NotStarted]
    /\ upload_lock = 0
    /\ upload_conn = "sftp"

\* SftpSession::new: both caches are empty, and stat has not been called
StatIdle ==
    /\ uid_cache = <<>>
    /\ gid_cache = <<>>
    /\ stat_out = NotCalled
    /\ stat_seen = {}
    /\ stat_calls = 0

\* nothing is being uploaded
NameIdle ==
    /\ base_name = NoName
    /\ existing_files = {}
    /\ now = 0
    /\ unique_file_name = NoName

\* an upload is about to name its remote file
NameInit ==
    /\ base_name \in BaseNames
    /\ existing_files \in Listings
    /\ now \in Clock
    /\ unique_file_name = NoName

\* managers/transfer.rs upload_file: the call of generate_unique_filename on
\* the listing of the destination directory
UniqueName ==
    /\ unique_file_name = NoName
    /\ unique_file_name' = generate_unique_filename(base_name, existing_files, now)
    /\ UNCHANGED <<base_name, existing_files, now>>
    /\ UNCHANGED <<chainVars, termVars, ftVars, lockVars, listVars, telnetVars, loginVars, parseVars, execVars, chmodVars, loopVars, streamVars, uploadVars, statVars>>

\* an upload is about to name its remote file; the managers are idle
NamesOnlyInit == ChainIdle /\ TermInit /\ FtInit /\ NameInit /\ TelnetIdle /\ LoginIdle /\ ParseIdle /\ ExecIdle /\ ChmodIdle /\ LoopIdle /\ StreamIdle /\ UploadIdle /\ StatIdle

SpecNames == NamesOnlyInit /\ [][UniqueName]_vars

(***************************************************************************)
(* Transfers  (managers/transfer.rs download_file, upload_file; the         *)
(* sessions' download_file_with_progress and upload_file_with_progress)     *)
(***************************************************************************)
TransferIds == 1..MaxTransfers

\* managers/transfer.rs TransferProgressEvent, without the two paths
TransferProgressEvent(transfer_id, session_id, direction, file_name, bytes_transferred, total_bytes, done) ==
    [transfer_id |-> transfer_id, session_id |-> session_id, direction |-> direction,
     file_name |-> file_name, bytes_transferred |-> bytes_transferred,
     total_bytes |-> total_bytes, done |-> done]

\* the progress callback built by download_file and upload_file
progress_cb(tid, bytes, total) ==
    LET t == transfers[tid] IN
    TransferProgressEvent(tid, t.session_id, t.direction, t.file_name, bytes,
                          IF total > 0 THEN total ELSE t.total_bytes, FALSE)

\* tokio::sync::Mutex::lock: the caller goes on once nobody holds the guard
LockFree(session_id) == protocol_lock[session_id] = 0

\* the guard of the session's mutex held by the transfer, if any, is dropped
Unlock(tid) ==
    [id \in DOMAIN protocol_lock |-> IF protocol_lock[id] = tid THEN 0 ELSE protocol_lock[id]]

TransferFrame ==
    UNCHANGED <<ft_next_id, ft_sessions, next_id, sessions, senders, kind, task, write_q,
                resize_q, streaming_started, pending_buffer, child, inbound, log>>

\* a transfer that returns before any data moves
Refused(op, tid, session_id, ret) ==
    /\ transfers' = Insert(transfers, tid, [pc |-> "failed", session_id |-> session_id,
                                            direction |-> op])
    /\ last' = Ret(op, tid, ret)
    /\ UNCHANGED <<progress, protocol_lock>>
    /\ TransferFrame

\* a transfer whose session starts to copy: total_bytes is the size the manager
\* took, cb_total the one the session reports to the callback, size the number
\* of bytes the source yields
Started(op, tid, session_id, file_name, total_bytes, cb_total, size) ==
    /\ transfers' = Insert(transfers, tid,
                           [pc |-> "copying", session_id |-> session_id,
                            type |-> ft_sessions[session_id], direction |-> op,
                            file_name |-> file_name, total_bytes |-> total_bytes,
                            cb_total |-> cb_total, size |-> size, transferred |-> 0])
    \* sftp/session.rs: the guard of self.sftp is dropped at the end of the block
    \* that opens or creates the remote file; ftp/session.rs: the guard of the
    \* stream is taken before retr_as_stream / put_file and lives until the data
    \* has been read or sent
    /\ protocol_lock' = IF ft_sessions[session_id] = "sftp" THEN protocol_lock
                        ELSE [protocol_lock EXCEPT ![session_id] = tid]
    /\ UNCHANGED <<last, progress>>
    /\ TransferFrame

\* managers/transfer.rs download_file up to the first read of the session's
\* download_file_with_progress: the lookup, stat, the session's own size query
\* (Sftp: metadata, Ftp: SIZE; 0 when it fails) and the opening of the files
download_file(tid, session_id) ==
    /\ tid = Cardinality(DOMAIN transfers) + 1
    /\ LET op == "download" IN
       IF ~get_session_arc(session_id).some THEN Refused(op, tid, session_id, "Unknown")
       ELSE \E stat \in [ok : {FALSE}] \cup [ok : {TRUE}, size : 0..MaxBytes] :
              /\ LockFree(session_id)
              /\ IF ~stat.ok THEN Refused(op, tid, session_id, "Err")
                ELSE \E open_ok \in BOOLEAN :
                       IF ~open_ok THEN Refused(op, tid, session_id, "Err")
                       ELSE \E size \in 0..MaxBytes, size_known \in BOOLEAN :
                              Started(op, tid, session_id, <<"a", ".", "t">>, stat.size,
                                      IF size_known THEN stat.size ELSE 0, size)

\* managers/transfer.rs upload_file up to the first read of the session's
\* upload_file_with_progress: the lookup, the local metadata, the listing of
\* the destination (empty when it fails), the unique name, and the session's
\* own metadata and opening of the files
upload_file(tid, session_id) ==
    /\ tid = Cardinality(DOMAIN transfers) + 1
    /\ LET op == "upload"
           original_file_name == <<"a", ".", "t">> IN
       IF ~get_session_arc(session_id).some THEN Refused(op, tid, session_id, "Unknown")
       ELSE \E meta \in [ok : {FALSE}] \cup [ok : {TRUE}, len : 0..MaxBytes] :
              IF ~meta.ok THEN Refused(op, tid, session_id, "Err")
              ELSE /\ LockFree(session_id)
                   /\ \E open_ok \in BOOLEAN :
                        IF ~open_ok THEN Refused(op, tid, session_id, "Err")
                        ELSE \E size \in 0..MaxBytes,
                                listing \in {{}, {FileInfo(original_file_name, FALSE)}} :
                               Started(op, tid, session_id,
                                       generate_unique_filename(original_file_name, listing, 0),
                                       meta.len, size, size)

\* one round of the copy loop of sftp/session.rs (a read of n > 0 bytes, the
\* write, the callback), or the whole body of ftp/session.rs (everything is
\* read and written, then the callback is called once)
transfer_copy(tid) ==
    /\ tid \in DOMAIN transfers
    /\ transfers[tid].pc = "copying"
    /\ LET t == transfers[tid] IN
       IF t.type = "sftp"
       THEN /\ t.transferred < t.size
            /\ \E n \in 1..(t.size - t.transferred) :
                 /\ transfers' = [transfers EXCEPT ![tid].transferred = @ + n]
                 /\ progress' = Append(progress,
                                       progress_cb(tid, t.transferred + n, t.cb_total))
                 /\ UNCHANGED protocol_lock
       ELSE /\ protocol_lock' = Unlock(tid)
            /\ transfers' = [transfers EXCEPT ![tid].transferred = t.size,
                                              ![tid].pc = "reported"]
            /\ progress' = Append(progress,
                                  progress_cb(tid, t.size,
                                              IF t.direction = "download" /\ t.cb_total > t.size
                                              THEN t.cb_total ELSE t.size))
    /\ UNCHANGED last
    /\ TransferFrame

\* a faulty variant of transfer_finish whose final event carries the number
\* of bytes that were copied
transfer_finish_counted(tid) ==
    /\ tid \in DOMAIN transfers
    /\ LET t == transfers[tid] IN
       /\ \/ t.pc = "copying" /\ t.type = "sftp" /\ t.transferred = t.size
          \/ t.pc = "reported"
       /\ progress' = Append(progress,
                             TransferProgressEvent(tid, t.session_id, t.direction,
                                                   t.file_name, t.transferred,
                                                   t.total_bytes, TRUE))
       /\ transfers' = [transfers EXCEPT ![tid].pc = "done"]
       /\ last' = Ret(t.direction, tid, "Ok")
    /\ UNCHANGED protocol_lock
    /\ TransferFrame

\* the session's transfer returns Ok (Sftp: the read returned 0), then the
\* manager emits the final event and returns
transfer_finish(tid) ==
    /\ tid \in DOMAIN transfers
    /\ LET t == transfers[tid] IN
       /\ \/ t.pc = "copying" /\ t.type = "sftp" /\ t.transferred = t.size
          \/ t.pc = "reported"
       /\ progress' = Append(progress,
                             TransferProgressEvent(tid, t.session_id, t.direction,
                                                   t.file_name, t.total_bytes,
                                                   t.total_bytes, TRUE))
       /\ transfers' = [transfers EXCEPT ![tid].pc = "done"]
       /\ last' = Ret(t.direction, tid, "Ok")
    /\ UNCHANGED protocol_lock
    /\ TransferFrame

\* a read or a write of the session's transfer fails: `?` returns the error
transfer_fail(tid) ==
    /\ tid \in DOMAIN transfers
    /\ transfers[tid].pc = "copying"
    /\ transfers' = [transfers EXCEPT ![tid].pc = "failed"]
    /\ last' = Ret(transfers[tid].direction, tid, "Err")
    /\ protocol_lock' = Unlock(tid)
    /\ UNCHANGED progress
    /\ TransferFrame

\* the state after one successful create_session of the file manager
TransferInit ==
    /\ ChainIdle /\ TermInit /\ NameIdle /\ TelnetIdle /\ LoginIdle /\ ParseIdle /\ ExecIdle /\ ChmodIdle /\ LoopIdle /\ StreamIdle /\ UploadIdle /\ StatIdle
    /\ ft_next_id = 1
    /\ \E type \in {"sftp", "ftp", "ftps"} : ft_sessions = Insert(<<>>, 1, type)
    /\ transfers = <<>>
    /\ progress = <<>>
    /\ protocol_lock = [id \in FtIds |-> 0]
    /\ home_resolved_for_root = [id \in FtIds |-> FALSE]
    /\ cwd = [id \in FtIds |-> Home]
    /\ \E pwd_ok \in {ok \in BOOLEAN : ft_sessions[1] # "sftp" \/ ~ok} :
         home_directory = [id \in FtIds |-> IF id = 1 /\ pwd_ok THEN Some(Home) ELSE None]
    /\ lists = <<>>

TransferNext ==
    \/ \E tid \in TransferIds, id \in FtIds :
         download_file(tid, id) /\ UNCHANGED <<chainVars, nameVars, lockVars, listVars, telnetVars, loginVars, parseVars, execVars, chmodVars, loopVars, streamVars, uploadVars, statVars>>
    \/ \E tid \in TransferIds, id \in FtIds :
         upload_file(tid, id) /\ UNCHANGED <<chainVars, nameVars, lockVars, listVars, telnetVars, loginVars, parseVars, execVars, chmodVars, loopVars, streamVars, uploadVars, statVars>>
    \/ \E tid \in TransferIds : transfer_copy(tid) /\ UNCHANGED <<chainVars, nameVars, lockVars, listVars, telnetVars, loginVars, parseVars, execVars, chmodVars, loopVars, streamVars, uploadVars, statVars>>
    \/ \E tid \in TransferIds : transfer_finish(tid) /\ UNCHANGED <<chainVars, nameVars, lockVars, listVars, telnetVars, loginVars, parseVars, execVars, chmodVars, loopVars, streamVars, uploadVars, statVars>>
    \/ \E tid \in TransferIds : transfer_fail(tid) /\ UNCHANGED <<chainVars, nameVars, lockVars, listVars, telnetVars, loginVars, parseVars, execVars, chmodVars, loopVars, streamVars, uploadVars, statVars>>
    \/ \E id \in FtIds : ft_close_session(id) /\ UNCHANGED <<chainVars, nameVars, lockVars, telnetVars, loginVars, parseVars, execVars, chmodVars, loopVars, streamVars, uploadVars, statVars>>

SpecTransfer == TransferInit /\ [][TransferNext]_vars

(***************************************************************************)
(* Directory listings  (managers/transfer.rs list_directory; the sessions'  *)
(* list_directory)                                                         *)
(***************************************************************************)
ListCalls == 1..MaxLists

\* the paths a listing is asked for
ListPaths == {<<>>, <<"/">>, <<"/", "/">>, <<"/", "s">>, <<"/", "s", "/">>}

\* str::trim_end_matches('/')
RECURSIVE trim_end_matches(_)
trim_end_matches(path) ==
    IF path # <<>> /\ path[Len(path)] = "/"
    THEN trim_end_matches(SubSeq(path, 1, Len(path) - 1))
    ELSE path

\* list_directory: "remove trailing slash except for root"
normalized_path(path) == IF path = RootPath THEN RootPath ELSE trim_end_matches(path)

is_root_like(path) == normalized_path(path) = <<>> \/ normalized_path(path) = RootPath

\* is_root_like && !self.home_resolved_for_root.swap(true, SeqCst): the flag is
\* swapped only for a root-like path
use_home_for_root(session_id, path) ==
    is_root_like(path) /\ ~home_resolved_for_root[session_id]

swap_home_resolved(session_id, path) ==
    IF is_root_like(path) THEN [home_resolved_for_root EXCEPT ![session_id] = TRUE]
    ELSE home_resolved_for_root

\* what a list call leaves behind: the path it was asked for, whether it put
\* the home directory in its place, whether the resolution of the home
\* directory or the access to the resolved directory failed, the path it
\* reports and the directory whose entries it returns
ListCall(session_id, path, use_home, home_failed, read_failed, pc, actual_path, listed) ==
    [session_id |-> session_id, path |-> path, use_home |-> use_home,
     home_failed |-> home_failed, read_failed |-> read_failed, pc |-> pc,
     actual_path |-> actual_path, listed |-> listed]

ListFrame ==
    UNCHANGED <<chainVars, termVars, nameVars, lockVars, ft_next_id, ft_sessions, transfers,
                progress, protocol_lock, home_directory, telnetVars, loginVars, parseVars, execVars, chmodVars, loopVars, streamVars, uploadVars, statVars>>

\* sftp/session.rs list_directory: the whole call runs under the guard of
\* self.sftp.  get_home_directory yields the answer to `echo $HOME` or nothing;
\* a failed read_dir of a path other than "/" falls back to read_dir("/")
sftp_list_directory(call, session_id, path) ==
    LET use_home == use_home_for_root(session_id, path) IN
    /\ LockFree(session_id)
    /\ home_resolved_for_root' = swap_home_resolved(session_id, path)
    /\ \E home \in IF use_home THEN {Some(Home), None} ELSE {None} :
         LET target_path == IF use_home
                            THEN (IF home.some THEN home.value ELSE RootPath)
                            ELSE normalized_path(path)
             home_failed == use_home /\ ~home.some
         IN  \E read_ok \in BOOLEAN, root_ok \in BOOLEAN :
               lists' = Insert(lists, call,
                  IF read_ok
                  THEN ListCall(session_id, path, use_home, home_failed, FALSE, "done",
                                target_path, target_path)
                  ELSE IF target_path # RootPath /\ root_ok
                  THEN ListCall(session_id, path, use_home, home_failed, TRUE, "done",
                                RootPath, RootPath)
                  ELSE ListCall(session_id, path, use_home, home_failed, TRUE, "failed",
                                target_path, <<>>))
    /\ UNCHANGED cwd

\* ftp/session.rs list_directory up to LIST: the target is the home directory
\* kept at login, else the answer to PWD, else "/"; CWD to the target, and
\* when that fails the path reported is the answer to PWD, else "/"
ftp_list_directory(call, session_id, path) ==
    LET use_home == use_home_for_root(session_id, path) IN
    /\ LockFree(session_id)
    /\ home_resolved_for_root' = swap_home_resolved(session_id, path)
    /\ \E pwd_ok \in BOOLEAN, cwd_ok \in BOOLEAN, pwd2_ok \in BOOLEAN :
         LET home == IF home_directory[session_id].some THEN home_directory[session_id]
                     ELSE IF pwd_ok THEN Some(cwd[session_id]) ELSE None
             target_path == IF use_home
                            THEN (IF home.some THEN home.value ELSE RootPath)
                            ELSE normalized_path(path)
             actual_path == IF cwd_ok THEN target_path
                            ELSE IF pwd2_ok THEN cwd[session_id] ELSE RootPath
         IN  /\ cwd' = IF cwd_ok /\ target_path # <<>>
                       THEN [cwd EXCEPT ![session_id] = target_path] ELSE cwd
             /\ lists' = Insert(lists, call,
                                ListCall(session_id, path, use_home, use_home /\ ~home.some,
                                         ~cwd_ok, "cwd_done", actual_path, <<>>))

\* ftp/session.rs list_directory, LIST: the server lists its working directory
ftp_list(call) ==
    /\ call \in DOMAIN lists
    /\ lists[call].pc = "cwd_done"
    /\ LockFree(lists[call].session_id)
    /\ \E list_ok \in BOOLEAN :
         lists' = [lists EXCEPT ![call].pc = IF list_ok THEN "done" ELSE "failed",
                                ![call].listed = IF list_ok THEN cwd[lists[call].session_id]
                                                 ELSE <<>>]
    /\ UNCHANGED <<last, home_resolved_for_root, cwd>>
    /\ ListFrame

\* managers/transfer.rs list_directory: look the session up, then call its
\* list_directory
list_directory(call, session_id, path) ==
    /\ call = Cardinality(DOMAIN lists) + 1
    /\ IF ~get_session_arc(session_id).some
       THEN /\ last' = Ret("list_directory", session_id, "Unknown")
            /\ UNCHANGED <<home_resolved_for_root, cwd, lists>>
       ELSE /\ IF ft_sessions[session_id] = "sftp"
               THEN sftp_list_directory(call, session_id, path)
               ELSE ftp_list_directory(call, session_id, path)
            /\ UNCHANGED last
    /\ ListFrame

\* the paths stat is asked for: a file in each of two directories
StatPaths == {<<"/", "s", "/", "f">>, <<"/", "t", "/", "f">>}

\* path.rsplitn(2, '/'): the part before the last '/' of a path that has one
stat_dir(path) ==
    IF rfind(path, "/") > 0 THEN SubSeq(path, 1, rfind(path, "/") - 1) ELSE RootPath

\* ftp/session.rs stat up to LIST: CWD to the directory of the path, and an
\* error when that fails; the listing that follows is the LIST step of
\* ftp_list, in whose lines the name is then looked for
ftp_stat(call, session_id, path) ==
    LET dir == stat_dir(path) IN
    /\ LockFree(session_id)
    /\ \E cwd_ok \in BOOLEAN :
         /\ cwd' = IF cwd_ok /\ dir # <<>> THEN [cwd EXCEPT ![session_id] = dir] ELSE cwd
         /\ lists' = Insert(lists, call,
                            ListCall(session_id, dir, FALSE, FALSE, ~cwd_ok,
                                     IF cwd_ok THEN "cwd_done" ELSE "failed", dir, <<>>))
    /\ UNCHANGED home_resolved_for_root

\* managers/transfer.rs stat: look the session up, then call its stat (an
\* Sftp session asks for the metadata of the path and changes no directory)
stat(call, session_id, path) ==
    /\ call = Cardinality(DOMAIN lists) + 1
    /\ IF get_session_arc(session_id).some /\ ft_sessions[session_id] # "sftp"
       THEN ftp_stat(call, session_id, path)
       ELSE UNCHANGED <<home_resolved_for_root, cwd, lists>>
    /\ UNCHANGED last
    /\ ListFrame

ListNext ==
    \/ \E call \in ListCalls, id \in FtIds, path \in ListPaths : list_directory(call, id, path)
    \/ \E call \in ListCalls, id \in FtIds, path \in StatPaths : stat(call, id, path)
    \/ \E call \in ListCalls : ftp_list(call)

SpecList == TransferInit /\ [][ListNext]_vars

\* a chunk is about to be decoded, or a window size encoded; the managers are
\* idle
TelnetOnlyInit == ChainIdle /\ TermInit /\ FtInit /\ NameIdle /\ TelnetInit /\ LoginIdle /\ ParseIdle /\ ExecIdle /\ ChmodIdle /\ LoopIdle /\ StreamIdle /\ UploadIdle /\ StatIdle

TelnetNext == ProcessData \/ BuildNaws

SpecTelnet == TelnetOnlyInit /\ [][TelnetNext]_vars

\* a handler has just been created; the managers are idle
LoginOnlyInit == ChainIdle /\ TermInit /\ FtInit /\ NameIdle /\ TelnetIdle /\ LoginInit /\ ParseIdle /\ ExecIdle /\ ChmodIdle /\ LoopIdle /\ StreamIdle /\ UploadIdle /\ StatIdle

SpecLogin == LoginOnlyInit /\ [][Process]_vars

(***************************************************************************)
(* Uploads into one remote directory  (managers/transfer.rs upload_file)   *)
(***************************************************************************)
\* a session of one of the three connection types, and a remote directory
\* that holds the file name, its first numbered variant, both or neither
UploadInit ==
    /\ remote_files \in SUBSET {UploadName, Numbered(<<"a">>, 1, <<".", "t">>)}
    /\ uploads = [tid \in UploadIds |-> NotStarted]
    /\ upload_lock = 0
    /\ upload_conn \in {"sftp", "ftp", "ftps"}

\* the uploads that have created their remote file
Created == {tid \in UploadIds : uploads[tid].pc \in {"writing", "done"}}

\* managers/transfer.rs upload_file up to the unique name: the lookup, the
\* local metadata, session.list_directory(remote_dir) under the session's
\* mutex (an empty listing when it fails) and generate_unique_filename
upload_list(tid) ==
    /\ uploads[tid].pc = "new"
    /\ upload_lock = 0
    /\ \E list_ok \in BOOLEAN :
         LET existing == IF list_ok THEN {FileInfo(n, FALSE) : n \in remote_files} ELSE {} IN
         uploads' = [uploads EXCEPT ![tid] =
                       [pc |-> "named", list_ok |-> list_ok, after |-> Created,
                        unique_file_name |-> generate_unique_filename(UploadName, existing, 0)]]
    /\ UNCHANGED <<remote_files, upload_lock, upload_conn>>

\* the session's upload_file_with_progress up to the creation of the remote
\* file: Sftp takes the mutex for sftp.create and drops it, Ftp takes it for
\* put_file and holds it until the data is sent
upload_create(tid) ==
    /\ uploads[tid].pc = "named"
    /\ upload_lock = 0
    /\ remote_files' = remote_files \cup {uploads[tid].unique_file_name}
    /\ uploads' = [uploads EXCEPT ![tid].pc = "writing"]
    /\ upload_lock' = IF upload_conn = "sftp" THEN 0 ELSE tid
    /\ UNCHANGED upload_conn

\* the data is written and the upload returns; Ftp drops the mutex
upload_written(tid) ==
    /\ uploads[tid].pc = "writing"
    /\ uploads' = [uploads EXCEPT ![tid].pc = "done"]
    /\ upload_lock' = IF upload_lock = tid THEN 0 ELSE upload_lock
    /\ UNCHANGED <<remote_files, upload_conn>>

\* a session is registered and nothing is uploaded yet; the rest is idle
UploadOnlyInit == ChainIdle /\ TermInit /\ FtInit /\ NameIdle /\ TelnetIdle /\ LoginIdle /\ ParseIdle /\ ExecIdle /\ ChmodIdle /\ LoopIdle /\ StreamIdle /\ UploadInit /\ StatIdle

UploadNext ==
    \/ \E tid \in UploadIds : upload_list(tid) /\ UNCHANGED <<chainVars, termVars, ftVars, nameVars, lockVars, listVars, telnetVars, loginVars, parseVars, execVars, chmodVars, loopVars, streamVars, statVars>>
    \/ \E tid \in UploadIds : upload_create(tid) /\ UNCHANGED <<chainVars, termVars, ftVars, nameVars, lockVars, listVars, telnetVars, loginVars, parseVars, execVars, chmodVars, loopVars, streamVars, statVars>>
    \/ \E tid \in UploadIds : upload_written(tid) /\ UNCHANGED <<chainVars, termVars, ftVars, nameVars, lockVars, listVars, telnetVars, loginVars, parseVars, execVars, chmodVars, loopVars, streamVars, statVars>>

\* uploads of one file name into one directory of one session
SpecUpload == UploadOnlyInit /\ [][UploadNext]_vars

\* a codec has just been created; the managers are idle
StreamOnlyInit == ChainIdle /\ TermInit /\ FtInit /\ NameIdle /\ TelnetIdle /\ LoginIdle /\ ParseIdle /\ ExecIdle /\ ChmodIdle /\ LoopIdle /\ StreamInit /\ UploadIdle /\ StatIdle

StreamNext == \E n \in 1..Len(stream) : read_chunk(n)

\* one codec is given a stream in consecutive reads
SpecTelnetStream == StreamOnlyInit /\ [][StreamNext]_vars

\* an auto-login handler that is fed long texts
SpecLoginBuffer == LoginOnlyInit /\ [][ProcessLong]_vars

(***************************************************************************)
(* FTP LIST lines  (ftp/session.rs parse_ftp_list_line)                     *)
(***************************************************************************)
\* char::is_whitespace on the characters of the model
is_whitespace(c) == c \in {" ", "\t", "\n", "\r"}

\* str::trim
RECURSIVE trim(_)
trim(text) ==
    IF text = <<>> THEN <<>>
    ELSE IF is_whitespace(text[1]) THEN trim(Tail(text))
    ELSE IF is_whitespace(text[Len(text)]) THEN trim(SubSeq(text, 1, Len(text) - 1))
    ELSE text

\* str::split_whitespace().collect(): the maximal runs of other characters
RECURSIVE split_whitespace(_)
split_whitespace(text) ==
    IF text = <<>> THEN <<>>
    ELSE IF is_whitespace(text[1]) THEN split_whitespace(Tail(text))
    ELSE LET stops == {i \in 1..Len(text) : is_whitespace(text[i])}
             end == IF stops = {} THEN Len(text) + 1
                    ELSE CHOOSE i \in stops : \A k \in stops : i <= k
         IN  <<SubSeq(text, 1, end - 1)>> \o split_whitespace(SubSeq(text, end, Len(text)))

\* [&str]::join(" ")
RECURSIVE join(_)
join(parts) ==
    IF parts = <<>> THEN <<>>
    ELSE IF Len(parts) = 1 THEN parts[1]
    ELSE parts[1] \o <<" ">> \o join(Tail(parts))

\* the value of a decimal digit, -1 for another character
digit(c) == IF \E d \in 1..10 : DigitChars[d] = c
            THEN (CHOOSE d \in 1..10 : DigitChars[d] = c) - 1 ELSE -1

RECURSIVE digits_value(_)
digits_value(text) ==
    IF text = <<>> THEN 0 ELSE digits_value(SubSeq(text, 1, Len(text) - 1)) * 10 + digit(text[Len(text)])

\* str::parse::<u64>().ok(): an optional "+", then decimal digits (the numbers
\* of the model stay far below 2^64)
parse_u64(text) ==
    LET digits == IF text # <<>> /\ text[1] = "+" THEN Tail(text) ELSE text IN
    IF digits # <<>> /\ \A i \in 1..Len(digits) : digit(digits[i]) >= 0
    THEN Some(digits_value(digits)) ELSE None

Arrow == <<" ", "-", ">", " ">>

\* the position of the first " -> " in the text, 0 when there is none
find_arrow(text) ==
    LET at == {i \in 1..(Len(text) - 3) : SubSeq(text, i, i + 3) = Arrow}
    IN  IF at = {} THEN 0 ELSE CHOOSE i \in at : \A k \in at : i <= k

\* parse_ftp_list_line from raw_name on: the name and the link target
name_and_target(parts) ==
    LET raw_name == join(SubSeq(parts, 9, Len(parts)))
        is_symlink == parts[1][1] = "l"
        at == find_arrow(raw_name)
    IN  IF is_symlink /\ at > 0
        THEN [name |-> SubSeq(raw_name, 1, at - 1),
              symlink_target |-> Some(SubSeq(raw_name, at + 4, Len(raw_name)))]
        ELSE [name |-> raw_name, symlink_target |-> None]

\* parse_ftp_list_line: the FileInfo built from the fields
list_entry(parts, base_path) ==
    LET permissions == parts[1]
        nt == name_and_target(parts)
        size == parse_u64(parts[5])
        absolute == (\E i \in 1..Len(nt.name) : nt.name[i] \in {"\\", "/"})
                    /\ nt.name[1] \in {"/", "\\"}
    IN  [name |-> nt.name,
         path |-> IF absolute THEN nt.name
                  ELSE IF base_path = RootPath THEN <<"/">> \o nt.name
                  ELSE trim_end_matches(base_path) \o <<"/">> \o nt.name,
         size |-> IF size.some THEN size.value ELSE 0,
         is_directory |-> permissions[1] = "d",
         is_symlink |-> permissions[1] = "l",
         symlink_target |-> nt.symlink_target,
         permissions |-> Some(permissions),
         modified |-> Some(join(SubSeq(parts, 6, 8))),
         owner |-> Some(parts[3]),
         group |-> Some(parts[4])]

TypeChars == {"d", "-", "l", "c", "b", "p", "s"}
Dot == <<".">>
DotDot == <<".", ".">>

\* a faulty variant of parse_ftp_list_line that returns the entries "." and ".."
parse_ftp_list_line_with_dots(line, base_path) ==
    LET parts == split_whitespace(trim(line)) IN
    IF Len(parts) < 9 \/ Len(parts[1]) < 10 \/ parts[1][1] \notin TypeChars
    THEN None
    ELSE Some(list_entry(parts, base_path))

\* ftp/session.rs parse_ftp_list_line
parse_ftp_list_line(line, base_path) ==
    LET trimmed == trim(line)
        parts == split_whitespace(trimmed)
    IN  IF trimmed = <<>> THEN None
        ELSE IF Len(parts) < 9 THEN None
        ELSE IF Len(parts[1]) < 10 THEN None
        ELSE IF parts[1][1] \notin TypeChars THEN None
        ELSE IF name_and_target(parts).name \in {<<>>, Dot, DotDot} THEN None
        ELSE Some(list_entry(parts, base_path))

\* the fields the lines of the model are made of
PermissionFields == {<<"d", "r", "w", "x", "r", "-", "x", "r", "-", "x">>,
                     <<"-", "r", "w", "-", "r", "-", "-", "r", "-", "-">>,
                     <<"l", "r", "w", "x", "r", "w", "x", "r", "w", "x">>,
                     <<"d", "r", "w", "x">>,
                     <<"?", "r", "w", "x", "r", "-", "x", "r", "-", "x">>}
SizeFields == {<<"4", "0", "9", "6">>, <<"x">>, <<"+", "7">>}
NameWords == {<<"a">>, <<".">>, <<".", ".">>, <<"-", ">">>}
SampleLine == <<"d", "r", "w", "x", "r", "-", "x", "r", "-", "x", " ", "2", " ", "u", "s", "e", "r", " ", "g", "r", "o", "u", "p", " ", "4", "0", "9", "6", " ", "J", "a", "n", " ", "1", "5", " ", "1", "0", ":", "3", "0", " ", "d", "i", "r", "n", "a", "m", "e">>

\* the first n fields of a listing line with the given permissions, size and
\* name words
LineFields(permissions, size, words, n) ==
    LET fields == <<permissions, <<"2">>, <<"u", "s", "e", "r">>, <<"g", "r", "o", "u", "p">>, size, <<"J", "a", "n">>, <<"1", "5">>, <<"1", "0", ":", "3", "0">>>> \o words
    IN  SubSeq(fields, 1, IF n > Len(fields) THEN Len(fields) ELSE n)

\* the fields put on a line, with the separator between them and around them
RECURSIVE separated(_, _)
separated(fields, sep) ==
    IF fields = <<>> THEN sep ELSE sep \o fields[1] \o separated(Tail(fields), sep)

ListLines ==
    {SampleLine, <<>>} \cup
    { separated(LineFields(p, s, w, n), sep) :
        p \in PermissionFields, s \in SizeFields,
        w \in SeqsUpTo(NameWords, MaxWords) \ {<<>>},
        n \in {2, 8, 8 + MaxWords}, sep \in {<<" ">>, <<" ", "\t">>} }

BasePaths == {RootPath, Home, Home \o <<"/">>}

\* a line of a LIST answer is about to be parsed
ParseInit ==
    /\ list_line \in ListLines
    /\ list_base_path \in BasePaths
    /\ parsed = NotCalled

\* parse_ftp_list_line(&line, base_path)
ParseLine ==
    /\ parsed = NotCalled
    /\ parsed' = [called |-> TRUE, entry |-> parse_ftp_list_line(list_line, list_base_path)]
    /\ UNCHANGED <<list_line, list_base_path>>
    /\ UNCHANGED <<chainVars, termVars, ftVars, nameVars, lockVars, listVars, telnetVars, loginVars, execVars, chmodVars, loopVars, streamVars, uploadVars, statVars>>

\* a line is about to be parsed; the managers are idle
ParseOnlyInit == ChainIdle /\ TermInit /\ FtInit /\ NameIdle /\ TelnetIdle /\ LoginIdle /\ ParseInit /\ ExecIdle /\ ChmodIdle /\ LoopIdle /\ StreamIdle /\ UploadIdle /\ StatIdle

SpecParse == ParseOnlyInit /\ [][ParseLine]_vars

(***************************************************************************)
(* SFTP stat: owner and group names  (sftp/session.rs)                     *)
(***************************************************************************)
\* the numeric ids of the owners and groups of the files of the model
Uids == {0, 1000}
Gids == {0, 1000}

\* what `getent passwd uid | cut -d: -f1` prints on the server
getent_passwd(uid) ==
    IF uid = 0 THEN <<"r", "o", "o", "t", "\n">> ELSE <<"a", "l", "\n">>

\* what `getent group gid | cut -d: -f1` prints on the server
getent_group(gid) ==
    IF gid = 0 THEN <<"w", "h", "e", "e", "l", "\n">> ELSE <<"s", "t", "\n">>

\* how the command execution of a resolution ends: the channel cannot be
\* opened, exec fails, the command prints nothing, or it prints the name
Resolutions == {"open_failed", "exec_failed", "no_output", "output"}

\* format!("{} ({})", name, id)
WithId(name, id) == name \o <<" ", "(">> \o Display(id) \o <<")">>

\* resolve_uid and resolve_gid after the command has run: the text returned,
\* if any, the cache afterwards, and where the text came from
resolved_from(cache, id, resolution, output) ==
    LET name == trim(output) IN
    IF resolution = "output" /\ name # <<>>
    THEN [ret |-> Some(WithId(name, id)), cache |-> Insert(cache, id, name), from |-> "resolved"]
    ELSE [ret |-> None, cache |-> cache, from |-> "failed"]

\* SftpSession::resolve_uid
resolve_uid(cache, uid, resolution) ==
    IF uid \in DOMAIN cache
    THEN [ret |-> Some(cache[uid]), cache |-> cache, from |-> "cache"]
    ELSE resolved_from(cache, uid, resolution,
                       IF resolution = "output" THEN getent_passwd(uid) ELSE <<>>)

\* SftpSession::resolve_gid
resolve_gid(cache, gid, resolution) ==
    IF gid \in DOMAIN cache
    THEN [ret |-> Some(cache[gid]), cache |-> cache, from |-> "cache"]
    ELSE resolved_from(cache, gid, resolution,
                       IF resolution = "output" THEN getent_group(gid) ELSE <<>>)

\* a text stat has returned for an id
Seen(what, id, text, from) == [what |-> what, id |-> id, text |-> text, from |-> from]

\* SftpSession::stat: the metadata of the path, then the names of its owner
\* and of its group, each the resolved text or else the number
sftp_stat ==
    /\ stat_calls < MaxStats
    /\ stat_calls' = stat_calls + 1
    /\ \E metadata_ok \in BOOLEAN :
         IF ~metadata_ok
         THEN /\ stat_out' = [called |-> TRUE, ok |-> FALSE]
              /\ UNCHANGED <<uid_cache, gid_cache, stat_seen>>
         ELSE \E uid \in {None} \cup {Some(n) : n \in Uids}, gid \in {None} \cup {Some(n) : n \in Gids},
                 for_uid \in Resolutions, for_gid \in Resolutions :
                LET u == IF uid.some THEN resolve_uid(uid_cache, uid.value, for_uid)
                         ELSE [ret |-> None, cache |-> uid_cache, from |-> "none"]
                    g == IF gid.some THEN resolve_gid(gid_cache, gid.value, for_gid)
                         ELSE [ret |-> None, cache |-> gid_cache, from |-> "none"]
                    owner == IF ~uid.some THEN None
                             ELSE IF u.ret.some THEN u.ret ELSE Some(Display(uid.value))
                    group == IF ~gid.some THEN None
                             ELSE IF g.ret.some THEN g.ret ELSE Some(Display(gid.value))
                IN  /\ uid_cache' = u.cache
                    /\ gid_cache' = g.cache
                    /\ stat_out' = [called |-> TRUE, ok |-> TRUE, uid |-> uid, gid |-> gid,
                                    owner |-> owner, group |-> group]
                    /\ stat_seen' = stat_seen
                          \cup (IF uid.some THEN {Seen("owner", uid.value, owner.value, u.from)} ELSE {})
                          \cup (IF gid.some THEN {Seen("group", gid.value, group.value, g.from)} ELSE {})
    /\ UNCHANGED <<chainVars, termVars, ftVars, nameVars, lockVars, listVars, telnetVars, loginVars, parseVars, execVars, chmodVars, loopVars, streamVars, uploadVars>>

\* an SFTP session has just been created; the rest is idle
StatOnlyInit == ChainIdle /\ TermInit /\ FtInit /\ NameIdle /\ TelnetIdle /\ LoginIdle /\ ParseIdle /\ ExecIdle /\ ChmodIdle /\ LoopIdle /\ StreamIdle /\ UploadIdle /\ StatIdle

\* stat calls on one SFTP session
SpecStat == StatOnlyInit /\ [][sftp_stat]_vars

\* an SSH session is connected; the managers are idle
ExecOnlyInit == ChainIdle /\ TermInit /\ FtInit /\ NameIdle /\ TelnetIdle /\ LoginIdle /\ ParseIdle /\ ExecIdle /\ ChmodIdle /\ LoopIdle /\ StreamIdle /\ UploadIdle /\ StatIdle

ExecNext == ssh_execute_command \/ ssh_execute_wait

SpecExec == ExecOnlyInit /\ [][ExecNext]_vars

\* a remote file is about to be chmod-ed; the managers are idle
ChmodOnlyInit == ChainIdle /\ TermInit /\ FtInit /\ NameIdle /\ TelnetIdle /\ LoginIdle /\ ParseIdle /\ ExecIdle /\ ChmodInit /\ LoopIdle /\ StreamIdle /\ UploadIdle /\ StatIdle

ChmodNext == \E mode \in RequestedModes : chmod(mode)

SpecChmod == ChmodOnlyInit /\ [][ChmodNext]_vars

\* a Telnet session has been connected; the managers are idle
LoopOnlyInit == ChainIdle /\ TermInit /\ FtInit /\ NameIdle /\ TelnetIdle /\ LoginIdle /\ ParseIdle /\ ExecIdle /\ ChmodIdle /\ LoopInit /\ StreamIdle /\ UploadIdle /\ StatIdle

LoopNext ==
    \/ \E data \in Chunks : loop_write(data)
    \/ \E size \in LoopSizes : loop_resize(size[1], size[2])
    \/ \E data \in LoopChunks : loop_read(data)
    \/ loop_read_end

SpecTelnetLoop == LoopOnlyInit /\ [][LoopNext]_vars

\* run HopHandler::from_config(jumps, target).execute(None, app_handle)
ChainExecute ==
    /\ IsPending(chain_result)
    /\ chain_result' = chain_execute(SubSeq(chain_configs, 1, Len(chain_configs) - 1),
                                     chain_configs[Len(chain_configs)], chain_fault)
    /\ UNCHANGED <<chain_configs, chain_fault>>
    /\ UNCHANGED <<termVars, ftVars, nameVars, lockVars, listVars, telnetVars, loginVars, parseVars, execVars, chmodVars, loopVars, streamVars, uploadVars, statVars>>

\* a chain is about to be executed; the managers are idle
ChainOnlyInit == ChainInit /\ TermInit /\ FtInit /\ NameIdle /\ TelnetIdle /\ LoginIdle /\ ParseIdle /\ ExecIdle /\ ChmodIdle /\ LoopIdle /\ StreamIdle /\ UploadIdle /\ StatIdle

SpecChain == ChainOnlyInit /\ [][ChainExecute]_vars

(***************************************************************************)
(* The managers with their sessions' background tasks                      *)
(***************************************************************************)
Init == ChainIdle /\ TermInit /\ FtInit /\ NameIdle /\ TelnetIdle /\ LoginIdle /\ ParseIdle /\ ExecIdle /\ ChmodIdle /\ LoopIdle /\ StreamIdle /\ UploadIdle /\ StatIdle

\* the operations of the two managers on their registries (the operations on
\* one session, the sessions' background tasks and the transfers run in
\* SpecSession and SpecTransfer)
Next ==
    \/ create_local_session /\ UNCHANGED <<chainVars, ftVars, nameVars, lockVars, listVars, telnetVars, loginVars, parseVars, execVars, chmodVars, loopVars, streamVars, uploadVars, statVars>>
    \/ create_ssh_session /\ UNCHANGED <<chainVars, ftVars, nameVars, lockVars, listVars, telnetVars, loginVars, parseVars, execVars, chmodVars, loopVars, streamVars, uploadVars, statVars>>
    \/ create_chained_ssh_session /\ UNCHANGED <<chainVars, ftVars, nameVars, lockVars, listVars, telnetVars, loginVars, parseVars, execVars, chmodVars, loopVars, streamVars, uploadVars, statVars>>
    \/ create_telnet_session /\ UNCHANGED <<chainVars, ftVars, nameVars, lockVars, listVars, telnetVars, loginVars, parseVars, execVars, chmodVars, loopVars, streamVars, uploadVars, statVars>>
    \/ \E id \in Ids : ping_session(id) /\ UNCHANGED <<chainVars, ftVars, nameVars, lockVars, listVars, telnetVars, loginVars, parseVars, execVars, chmodVars, loopVars, streamVars, uploadVars, statVars>>
    \/ \E id \in Ids : close_session(id) /\ UNCHANGED <<chainVars, ftVars, nameVars, lockVars, listVars, telnetVars, loginVars, parseVars, execVars, chmodVars, loopVars, streamVars, uploadVars, statVars>>
    \/ create_session /\ UNCHANGED <<chainVars, nameVars, lockVars, telnetVars, loginVars, parseVars, execVars, chmodVars, loopVars, streamVars, uploadVars, statVars>>
    \/ \E id \in FtIds : ft_close_session(id) /\ UNCHANGED <<chainVars, nameVars, lockVars, telnetVars, loginVars, parseVars, execVars, chmodVars, loopVars, streamVars, uploadVars, statVars>>

Spec == Init /\ [][Next]_vars

(***************************************************************************)
(* One terminal session, from its registration on, with its background     *)
(* task and the remote side                                                *)
(***************************************************************************)
\* the state after one successful create operation of the terminal manager
SessionInit ==
    /\ ChainIdle /\ FtInit /\ NameIdle /\ TelnetIdle /\ LoginIdle /\ ParseIdle /\ ExecIdle /\ ChmodIdle /\ LoopIdle /\ StreamIdle /\ UploadIdle /\ StatIdle
    /\ \E type \in SessionType :
         /\ next_id = 1
         /\ sessions = Insert(<<>>, 1, type)
         /\ senders = [i \in Ids |-> i = 1]
         /\ kind = [i \in Ids |-> IF i = 1 THEN type ELSE "none"]
         /\ task = [i \in Ids |-> IF i = 1 THEN "running" ELSE "none"]
         /\ child = [i \in Ids |-> IF i = 1 /\ type = "Local" THEN "running" ELSE "none"]
         /\ last = Ret(CreateOp(type), 1, "Ok")
    /\ delegated = [i \in Ids |-> "none"]
    /\ sessions_guard = {}
    /\ write_q = [i \in Ids |-> <<>>]
    /\ resize_q = [i \in Ids |-> <<>>]
    /\ streaming_started = [i \in Ids |-> FALSE]
    /\ pending_buffer = [i \in Ids |-> <<>>]
    /\ inbound = [i \in Ids |-> <<>>]
    /\ log = [i \in Ids |-> <<>>]

SessionNext ==
    \/ \E id \in Ids : write_to_session(id) /\ UNCHANGED <<chainVars, ftVars, nameVars, lockVars, listVars, telnetVars, loginVars, parseVars, execVars, chmodVars, loopVars, streamVars, uploadVars, statVars>>
    \/ \E id \in Ids : resize_session(id) /\ UNCHANGED <<chainVars, ftVars, nameVars, lockVars, listVars, telnetVars, loginVars, parseVars, execVars, chmodVars, loopVars, streamVars, uploadVars, statVars>>
    \/ \E id \in Ids : start_streaming(id) /\ UNCHANGED <<chainVars, ftVars, nameVars, lockVars, listVars, telnetVars, loginVars, parseVars, execVars, chmodVars, loopVars, streamVars, uploadVars, statVars>>
    \/ \E id \in Ids : ping_session(id) /\ UNCHANGED <<chainVars, ftVars, nameVars, lockVars, listVars, telnetVars, loginVars, parseVars, execVars, chmodVars, loopVars, streamVars, uploadVars, statVars>>
    \/ \E id \in Ids : execute_command(id) /\ UNCHANGED <<chainVars, ftVars, nameVars, listVars, telnetVars, loginVars, parseVars, execVars, chmodVars, loopVars, streamVars, uploadVars, statVars>>
    \/ \E id \in Ids : execute_command_return(id) /\ UNCHANGED <<chainVars, ftVars, nameVars, listVars, telnetVars, loginVars, parseVars, execVars, chmodVars, loopVars, streamVars, uploadVars, statVars>>
    \/ \E id \in Ids : close_session(id) /\ UNCHANGED <<chainVars, ftVars, nameVars, lockVars, listVars, telnetVars, loginVars, parseVars, execVars, chmodVars, loopVars, streamVars, uploadVars, statVars>>
    \/ \E id \in Ids : channel_io_loop_write(id) /\ UNCHANGED <<chainVars, ftVars, nameVars, lockVars, listVars, telnetVars, loginVars, parseVars, execVars, chmodVars, loopVars, streamVars, uploadVars, statVars>>
    \/ \E id \in Ids : channel_io_loop_resize(id) /\ UNCHANGED <<chainVars, ftVars, nameVars, lockVars, listVars, telnetVars, loginVars, parseVars, execVars, chmodVars, loopVars, streamVars, uploadVars, statVars>>
    \/ \E id \in Ids : channel_io_loop_msg(id) /\ UNCHANGED <<chainVars, ftVars, nameVars, lockVars, listVars, telnetVars, loginVars, parseVars, execVars, chmodVars, loopVars, streamVars, uploadVars, statVars>>
    \/ \E id \in Ids : io_loop_write(id) /\ UNCHANGED <<chainVars, ftVars, nameVars, lockVars, listVars, telnetVars, loginVars, parseVars, execVars, chmodVars, loopVars, streamVars, uploadVars, statVars>>
    \/ \E id \in Ids : io_loop_resize(id) /\ UNCHANGED <<chainVars, ftVars, nameVars, lockVars, listVars, telnetVars, loginVars, parseVars, execVars, chmodVars, loopVars, streamVars, uploadVars, statVars>>
    \/ \E id \in Ids : io_loop_read(id) /\ UNCHANGED <<chainVars, ftVars, nameVars, lockVars, listVars, telnetVars, loginVars, parseVars, execVars, chmodVars, loopVars, streamVars, uploadVars, statVars>>
    \/ \E id \in Ids : pty_reader(id) /\ UNCHANGED <<chainVars, ftVars, nameVars, lockVars, listVars, telnetVars, loginVars, parseVars, execVars, chmodVars, loopVars, streamVars, uploadVars, statVars>>

SpecSession == SessionInit /\ [][SessionNext]_vars

\* one step of the background I/O task of a session
LoopStep(id) ==
    /\ \/ channel_io_loop_write(id) \/ channel_io_loop_resize(id) \/ channel_io_loop_msg(id)
       \/ io_loop_write(id) \/ io_loop_resize(id) \/ io_loop_read(id)
       \/ pty_reader(id)
    /\ UNCHANGED <<chainVars, ftVars, nameVars, lockVars, listVars, telnetVars, loginVars, parseVars, execVars, chmodVars, loopVars, streamVars, uploadVars, statVars>>

\* tokio::spawn: a task that can take a step is scheduled
SessionFairness == \A id \in Ids : WF_vars(LoopStep(id))

SpecSessionFair == SessionInit /\ [][SessionNext]_vars /\ SessionFairness

(***************************************************************************)
(* Properties                                                              *)
(***************************************************************************)
\* C2: when the execution of a chain fails at hop k, the returned error
\* identifies hop k: no failure at another hop of the same chain returns the
\* same error
C2_ErrorIdentifiesHop ==
    (~IsPending(chain_result) /\ ~chain_result.ok) =>
        \A f \in Faults(Len(chain_configs)) :
            ( /\ FaultPossible(Len(chain_configs), f)
              /\ f # NoFault
              /\ execute(chain_configs, 0, f, <<>>).err = chain_result.err )
            => f.hop = chain_fault.hop

\* the create operations of the two managers
CreateOps == {"create_local_session", "create_ssh_session", "create_chained_ssh_session",
              "create_telnet_session", "ft.create_session"}

\* the operations that look a terminal session up by id
LookupOps == {"write_to_session", "resize_session", "start_streaming", "ping_session",
              "execute_command"}

\* C1: a create operation of either manager that returns an error leaves both
\* registries exactly as they were
C1_FailedCreateKeepsRegistry ==
    [][ (last'.op \in CreateOps /\ last'.ret # "Ok")
          => (sessions' = sessions /\ ft_sessions' = ft_sessions) ]_vars

\* a chained SSH create failed while connecting, with a session registered
C1_Witness ==
    /\ last.op = "create_chained_ssh_session"
    /\ last.ret = ConnectErr
    /\ sessions # <<>>

\* C3: a terminal session whose background I/O task has ended is no longer in
\* the registry
C3_EndedSessionIsRemoved ==
    \A id \in Ids : task[id] = "ended" => ~Registered(id)

\* positions of the user-closed exit event in a session's log
UserClosedAt(id) == {i \in 1..Len(log[id]) : log[id][i] = ExitEvent(user_closed)}

\* the session was registered once and the manager has closed it
Closed(id) == kind[id] # "none" /\ ~Registered(id)

\* C4: close_session on a registered id removes it, emits the user-closed exit
\* event exactly once and invokes the session's close right after it; every
\* later lookup of the id fails with session-not-found
C4_CloseSession ==
    /\ [](\A id \in Ids :
            /\ Cardinality(UserClosedAt(id)) = (IF Closed(id) THEN 1 ELSE 0)
            /\ \A i \in UserClosedAt(id) :
                 /\ i < Len(log[id]) /\ log[id][i + 1] = CloseCall
                 /\ \A j \in 1..Len(log[id]) : log[id][j] = CloseCall => j = i + 1)
    /\ [][ /\ (last'.op = "close_session" /\ Registered(last'.id))
                => ~(last'.id \in DOMAIN sessions')
           /\ (last'.op \in LookupOps /\ Closed(last'.id))
                => last'.ret = NotFound ]_vars

\* a lookup of a closed session has failed with session-not-found
C4_Witness ==
    /\ last.op \in LookupOps
    /\ Closed(last.id)
    /\ last.ret = NotFound
    /\ UserClosedAt(last.id) # {}

\* C5: close_session of either manager on an id that is not registered returns
\* success, emits nothing and leaves both registries unchanged
C5_CloseUnknownIsNoOp ==
    [][ ( \/ last'.op = "close_session" /\ ~Registered(last'.id)
          \/ last'.op = "ft.close_session" /\ ~FtRegistered(last'.id) )
          => ( /\ last'.ret = "Ok"
               /\ log' = log /\ progress' = progress
               /\ sessions' = sessions /\ ft_sessions' = ft_sessions ) ]_vars

\* with a file session registered, the close of an id that was never generated
\* has returned
C5_Witness ==
    /\ last.op = "ft.close_session"
    /\ last.ret = "Ok"
    /\ last.id > ft_next_id
    /\ ft_sessions # <<>>

\* C6: once the manager has emitted user-closed for a session, no other
\* terminal-exit event is emitted for it
C6_OnlyUserClosedExit ==
    \A id \in Ids : \A i \in UserClosedAt(id) :
        \A j \in 1..Len(log[id]) : (j # i) => log[id][j].name # "terminal-exit"

\* the terminal-output texts emitted for a session, in order
RECURSIVE Emitted(_)
Emitted(entries) ==
    IF entries = <<>> THEN <<>>
    ELSE (IF Head(entries).name = "terminal-output" THEN <<Head(entries).text>> ELSE <<>>)
           \o Emitted(Tail(entries))

\* C7: an SSH or Telnet session emits no terminal-output event before
\* start_streaming was called on it, and holds every chunk received so far in
\* its pending buffer
C7_BufferedUntilStreaming ==
    \A id \in Ids :
        (kind[id] \in {"Ssh", "Telnet"} /\ ~streaming_started[id])
          => (Emitted(log[id]) = <<>> /\ pending_buffer[id] = inbound[id])

\* an SSH session holds two chunks in its pending buffer before streaming has
\* started
C7_Witness ==
    \E id \in Ids :
        /\ kind[id] = "Ssh" /\ ~streaming_started[id]
        /\ Len(inbound[id]) = 2 /\ pending_buffer[id] = inbound[id]

\* C8: the concatenation of the texts emitted for an SSH or Telnet session is a
\* prefix of the concatenation of its inbound chunks
C8_EmittedIsPrefixOfInbound ==
    \A id \in Ids :
        kind[id] \in {"Ssh", "Telnet"}
          => IsPrefix(Concat(Emitted(log[id])), Concat(inbound[id]))

\* a non-directory entry of the listing has the name, case-insensitively
Taken(name, files) ==
    \E f \in files : ~f.is_directory /\ to_lowercase(f.name) = to_lowercase(name)

\* the name with " (N)" inserted before its extension (the part from the last
\* dot on)
WithNumber(name, N) ==
    LET dot == rfind(name, ".") IN
    IF dot = 0 THEN name \o <<" ", "(">> \o Display(N) \o <<")">>
    ELSE SubSeq(name, 1, dot - 1) \o <<" ", "(">> \o Display(N) \o <<")">>
           \o SubSeq(name, dot, Len(name))

\* the name with "_<secs>" inserted before its extension
WithStamp(name, secs) ==
    LET dot == rfind(name, ".") IN
    IF dot = 0 THEN name \o <<"_">> \o Display(secs)
    ELSE SubSeq(name, 1, dot - 1) \o <<"_">> \o Display(secs) \o SubSeq(name, dot, Len(name))

\* the numbers up to top whose numbered name is free in the listing
FreeNumbers(name, files, top) ==
    {N \in 1..top : ~Taken(WithNumber(name, N), files)}

Least(S) == CHOOSE n \in S : \A m \in S : n <= m

\* C10 as stated: on a collision the name returned carries the smallest N >= 1
\* whose numbered name is free (one of the first |listing| + 1 numbers always
\* is); without a collision the name is returned unchanged
C10_SmallestFreeNumber ==
    (unique_file_name # NoName) =>
        IF Taken(base_name, existing_files)
        THEN unique_file_name =
               WithNumber(base_name,
                          Least(FreeNumbers(base_name, existing_files,
                                            Cardinality(existing_files) + 1)))
        ELSE unique_file_name = base_name

\* C10: on a collision the name returned carries the smallest N in
\* 1..MaxAttempts whose numbered name is free, and when none of them is free it
\* is the name with "_<seconds since the epoch>" before its extension; without
\* a collision the name is returned unchanged
C10_SmallestFreeNumberUpToCap ==
    (unique_file_name # NoName) =>
        IF Taken(base_name, existing_files)
        THEN LET top == IF Cardinality(existing_files) + 1 < MaxAttempts
                        THEN Cardinality(existing_files) + 1 ELSE MaxAttempts
                 free == FreeNumbers(base_name, existing_files, top)
             IN  IF free # {}
                 THEN unique_file_name = WithNumber(base_name, Least(free))
                 ELSE unique_file_name = WithStamp(base_name, now)
        ELSE unique_file_name = base_name

\* a.t was uploaded into a listing that holds a.t and a (1).t, and was named
\* a (2).t
C10_Witness ==
    /\ base_name = <<"a", ".", "t">>
    /\ Taken(<<"a", " ", "(", "1", ")", ".", "t">>, existing_files)
    /\ unique_file_name = <<"a", " ", "(", "2", ")", ".", "t">>

\* positions of the progress events of a transfer
EventsOf(tid) == {i \in 1..Len(progress) : progress[i].transfer_id = tid}

\* C9: a transfer that has completed successfully has exactly one done=true
\* progress event, no done=false event after it, and the event's
\* bytes_transferred equals its total_bytes
C9_OneFinalEvent ==
    \A tid \in DOMAIN transfers :
        transfers[tid].pc = "done" =>
            LET final == {i \in EventsOf(tid) : progress[i].done} IN
            /\ Cardinality(final) = 1
            /\ \A i \in final :
                 /\ \A k \in EventsOf(tid) : k <= i
                 /\ progress[i].bytes_transferred = progress[i].total_bytes

\* a transfer has completed after a progress callback, and copied a number of
\* bytes other than the size the manager took
C9_Witness ==
    \E tid \in DOMAIN transfers :
        /\ transfers[tid].pc = "done"
        /\ Cardinality({i \in EventsOf(tid) : ~progress[i].done}) = 1
        /\ transfers[tid].transferred # transfers[tid].total_bytes

\* C11: the name computed for an upload never equals, case-insensitively, the
\* name of a non-directory entry of the listing
C11_NameNeverCollides ==
    (unique_file_name # NoName) => ~Taken(unique_file_name, existing_files)

\* C12: in a session of any kind, a transfer that is copying bytes does not
\* hold the session's protocol lock
C12_NoLockDuringCopy ==
    \A tid \in DOMAIN transfers :
      transfers[tid].pc = "copying" => protocol_lock[transfers[tid].session_id] # tid

\* C13: while a session operation delegated by a manager call is in progress,
\* that call holds no guard of the manager's registry lock
C13_NoRegistryLockDuringDelegation ==
    \A id \in Ids : delegated[id] # "none" => id \notin sessions_guard

\* the list calls of a session that put the home directory in the place of a
\* root-like path
Substituted(session_id) ==
    {call \in DOMAIN lists : lists[call].session_id = session_id /\ lists[call].use_home}

\* C14 (first half): over all list calls of a session, at most one puts the
\* home directory in the place of the root-like path
C14_HomeSubstitutedAtMostOnce ==
    \A id \in FtIds : Cardinality(Substituted(id)) <= 1

\* C14: at most one list call of a session substitutes the home directory, and
\* a substituting call whose home resolution or whose access to the resolved
\* directory failed lists "/"
C14_HomeOnceElseRoot ==
    /\ C14_HomeSubstitutedAtMostOnce
    /\ \A call \in DOMAIN lists :
         LET l == lists[call] IN
         (l.pc = "done" /\ l.use_home /\ (l.home_failed \/ l.read_failed))
            => l.listed = RootPath

\* the chunk consists of data bytes and doubled IAC pairs only
RECURSIVE IsEscapedData(_)
IsEscapedData(data) ==
    IF data = <<>> THEN TRUE
    ELSE IF data[1] # IAC THEN IsEscapedData(Tail(data))
    ELSE Len(data) >= 2 /\ data[2] = IAC /\ IsEscapedData(Tail(Tail(data)))

\* the chunk with each doubled IAC pair replaced by one IAC
RECURSIVE Collapse(_)
Collapse(data) ==
    IF data = <<>> THEN <<>>
    ELSE IF data[1] = IAC /\ Len(data) >= 2 /\ data[2] = IAC
    THEN <<IAC>> \o Collapse(Tail(Tail(data)))
    ELSE <<data[1]>> \o Collapse(Tail(data))

\* C15: for a chunk of data bytes and doubled IAC pairs, the clean data is the
\* chunk with each pair collapsed to one 0xFF, there is no response, and the
\* three flags are as before
C15_EscapedIacCollapses ==
    (tn_out.called /\ IsEscapedData(tn_data)) =>
        /\ tn_out.clean_data = Collapse(tn_data)
        /\ tn_out.responses = <<>>
        /\ proto = tn_out.before

C15_Witness ==
    /\ tn_out.called
    /\ tn_data = <<65, IAC, IAC, 65>>
    /\ tn_out.clean_data = <<65, IAC, 65>>

\* C16: IAC WILL x is answered IAC DO x with the flag set for ECHO and SGA and
\* IAC DONT x with the flags as before otherwise; IAC DO x is answered
\* IAC WILL x for NAWS, TTYPE and SGA (NAWS: flag set, naws_requested true) and
\* IAC WONT x with the flags as before otherwise; the clean data is empty
C16_NegotiationReplies ==
    \A x \in Byte :
      /\ (tn_out.called /\ tn_data = <<IAC, WILL, x>>) =>
           /\ tn_out.clean_data = <<>>
           /\ IF x = OPT_ECHO
              THEN /\ tn_out.responses = <<IAC, DO, x>>
                   /\ proto = [tn_out.before EXCEPT !.echo_enabled = TRUE]
              ELSE IF x = OPT_SGA
              THEN /\ tn_out.responses = <<IAC, DO, x>>
                   /\ proto = [tn_out.before EXCEPT !.sga_enabled = TRUE]
              ELSE /\ tn_out.responses = <<IAC, DONT, x>>
                   /\ proto = tn_out.before
      /\ (tn_out.called /\ tn_data = <<IAC, DO, x>>) =>
           /\ tn_out.clean_data = <<>>
           /\ IF x = OPT_NAWS
              THEN /\ tn_out.responses = <<IAC, WILL, x>>
                   /\ proto.naws_enabled
                   /\ tn_out.naws_requested
              ELSE IF x \in {OPT_TTYPE, OPT_SGA}
              THEN tn_out.responses = <<IAC, WILL, x>>
              ELSE /\ tn_out.responses = <<IAC, WONT, x>>
                   /\ proto = tn_out.before

C16_Witness ==
    /\ tn_out.called
    /\ tn_data = <<IAC, DO, OPT_NAWS>>
    /\ ~tn_out.before.naws_enabled
    /\ proto.naws_enabled

\* a byte of the window size as it is sent: twice when it is 0xFF
Sent(b) == IF b = 255 THEN <<255, 255>> ELSE <<b>>

\* C17: build_naws(cols, rows) is IAC SB NAWS, the high and the low byte of
\* cols, the high and the low byte of rows, each sent twice when it is 0xFF,
\* then IAC SE; 80 x 24 gives IAC SB NAWS 0 80 0 24 IAC SE
C17_NawsEncoding ==
    naws_msg.called =>
        LET cols == naws_size[1]
            rows == naws_size[2]
        IN  /\ naws_msg.msg = <<255, 250, 31>> \o Sent(cols \div 256) \o Sent(cols % 256)
                                \o Sent(rows \div 256) \o Sent(rows % 256) \o <<255, 240>>
            /\ (cols = 80 /\ rows = 24) =>
                  naws_msg.msg = <<255, 250, 31, 0, 80, 0, 24, 255, 240>>

C17_Witness ==
    /\ naws_msg.called
    /\ naws_size = <<255, 24>>
    /\ Len(naws_msg.msg) = 10

\* the prompt in a text: a password fragment is looked for before a login
\* fragment, without regard to case
PromptIn(text) ==
    LET lower == text_to_lowercase(text)
        has(patterns) == \E k \in DOMAIN patterns : contains(lower, patterns[k])
    IN  IF has(PASSWORD_PATTERNS) THEN "Password"
        ELSE IF has(LOGIN_PATTERNS) THEN "Login" ELSE "None"

\* C18: a login prompt while AwaitingLogin returns the username and CR LF and
\* moves to AwaitingPassword (to Authenticated without a password); a password
\* prompt while AwaitingPassword returns the password and CR LF and moves to
\* Authenticated; any other call returns nothing and keeps the state
C18_LoginTransitions ==
    login_out.called =>
        LET before == login_out.before
            seen == PromptIn(before.buffer \o login_out.data)
        IN  IF before.state = "AwaitingLogin" /\ seen = "Login"
            THEN /\ login_out.response = Some(before.username.value \o <<"\r", "\n">>)
                 /\ login.state = IF before.password.some THEN "AwaitingPassword"
                                  ELSE "Authenticated"
            ELSE IF before.state = "AwaitingPassword" /\ seen = "Password"
            THEN /\ login_out.response = Some(before.password.value \o <<"\r", "\n">>)
                 /\ login.state = "Authenticated"
            ELSE /\ login_out.response = None
                 /\ login.state = before.state

C18_Witness ==
    /\ login_out.called
    /\ login_out.before.state = "AwaitingPassword"
    /\ login_out.response = Some(Secret \o <<"\r", "\n">>)
    /\ login.state = "Authenticated"

\* C19: a handler created without a username starts in Disabled; a process
\* call in Disabled or in Authenticated returns nothing and leaves the state
\* and the buffer as they were
C19_DisabledAndAuthenticatedAreInert ==
    /\ (login_calls = 0 /\ ~login.username.some) => login.state = "Disabled"
    /\ (login_out.called /\ login_out.before.state \in {"Disabled", "Authenticated"}) =>
         /\ login_out.response = None
         /\ login.state = login_out.before.state
         /\ login.buffer = login_out.before.buffer

C19_Witness ==
    /\ login_out.called
    /\ login_out.before.state = "Disabled"
    /\ PromptIn(login_out.data) = "Login"
    /\ login.state = "Disabled"

\* the whitespace-separated fields of the parsed line
Fields == split_whitespace(list_line)

\* the fields from index 8 on, joined by single spaces
JoinedName == join(SubSeq(Fields, 9, Len(Fields)))

\* the name the entry of the line carries: for a symlink line with " -> " the
\* part before it
EntryName ==
    IF Fields[1][1] = "l" /\ find_arrow(JoinedName) > 0
    THEN SubSeq(JoinedName, 1, find_arrow(JoinedName) - 1) ELSE JoinedName

\* is_directory, size, name and link target of the entry are those of the line
EntryMatchesLine ==
    LET e == parsed.entry.value IN
    /\ e.is_directory = (Fields[1][1] = "d")
    /\ e.size = IF parse_u64(Fields[5]).some THEN parse_u64(Fields[5]).value ELSE 0
    /\ e.name = EntryName
    /\ e.symlink_target =
         IF Fields[1][1] = "l" /\ find_arrow(JoinedName) > 0
         THEN Some(SubSeq(JoinedName, find_arrow(JoinedName) + 4, Len(JoinedName)))
         ELSE None

\* C20 (as stated): a line yields an entry exactly when it has at least 9
\* fields and its permissions field starts with one of d - l c b p s, and the
\* entry then carries the line's type, size and name
C20_EntryForEveryWellFormedLine ==
    parsed.called =>
        /\ parsed.entry.some <=> (Len(Fields) >= 9 /\ Fields[1][1] \in TypeChars)
        /\ parsed.entry.some => EntryMatchesLine

\* C20 (amended): a line yields an entry exactly when it has at least 9 fields,
\* its permissions field has at least 10 characters and starts with one of
\* d - l c b p s, and its name is neither "." nor ".."; the entry then carries
\* the line's type, size (0 when field 4 is not a number) and name
C20_EntryForLongPermissionsAndRealName ==
    parsed.called =>
        /\ parsed.entry.some <=>
             /\ Len(Fields) >= 9
             /\ Len(Fields[1]) >= 10
             /\ Fields[1][1] \in TypeChars
             /\ EntryName \notin {Dot, DotDot}
        /\ parsed.entry.some => EntryMatchesLine

C20_Witness ==
    /\ parsed.called
    /\ list_line = SampleLine
    /\ parsed.entry.some
    /\ parsed.entry.value.is_directory
    /\ parsed.entry.value.size = 4096
    /\ parsed.entry.value.name = <<"d", "i", "r", "n", "a", "m", "e">>

\* a symlink line has been parsed into a name and a link target
SymlinkParsed ==
    /\ parsed.called
    /\ parsed.entry.some
    /\ parsed.entry.value.is_symlink
    /\ parsed.entry.value.name = <<"a">>
    /\ parsed.entry.value.symlink_target = Some(<<".", ".">>)

\* the texts of the messages of one type among the first n messages of an
\* arrival, concatenated
RECURSIVE Captured(_, _, _)
Captured(arrival, type, n) ==
    IF n = 0 THEN <<>>
    ELSE Captured(arrival, type, n - 1)
           \o (IF arrival[n].type = type THEN Utf8Lossy(arrival[n].data) ELSE <<>>)

\* the non-zero exit statuses that arrive before the channel closes
FailedStatuses(arrival) ==
    {arrival[i].exit_status : i \in {j \in 1..Len(arrival) : arrival[j].type = "ExitStatus"}} \ {0}

\* C21: execute_command runs on a channel of its own, opened for the call, and
\* never on the PTY channel; when the channel has delivered a non-zero exit
\* status the call returns CommandFailed with all the stderr that arrived
\* before the close, otherwise it returns all the stdout that arrived before
\* the close, whatever the order of the messages
C21_ExecuteResult ==
    (exec.pc = "returned" /\ exec_in # <<>>) =>
        /\ exec.channel # PtyChannel
        /\ exec.channel = channels_opened
        /\ LET before == Len(exec_in) - 1 IN
           IF FailedStatuses(exec_in) # {}
           THEN /\ ~exec.ret.ok /\ exec.ret.variant = "CommandFailed"
                /\ exec.ret.status \in FailedStatuses(exec_in)
                /\ exec.ret.text = Captured(exec_in, "ExtendedData", before)
           ELSE /\ exec.ret.ok
                /\ exec.ret.text = Captured(exec_in, "Data", before)

\* the same with the stderr that arrived before the exit status: this is what
\* execute_command returns
C21_StderrUpToExitStatus ==
    (exec.pc = "returned" /\ exec_in # <<>>) =>
        /\ exec.channel # PtyChannel
        /\ exec.channel = channels_opened
        /\ IF FailedStatuses(exec_in) # {}
           THEN /\ ~exec.ret.ok /\ exec.ret.variant = "CommandFailed"
                /\ exec.ret.status \in FailedStatuses(exec_in)
                /\ exec.ret.text = Captured(exec_in, "ExtendedData", exec.pos)
           ELSE /\ exec.ret.ok
                /\ exec.ret.text = Captured(exec_in, "Data", Len(exec_in) - 1)

\* bit k of n is set
Bit(n, k) == (n \div (2 ^ k)) % 2 = 1

LoopRunning(id) == kind[id] \in {"Ssh", "Telnet"} /\ task[id] = "running"

\* C23: once the manager has closed an SSH or Telnet session, which drops the
\* session with its write and resize senders, and the queues are drained, the
\* session's task takes nothing more from its transport
C23_TaskEndsAfterClose ==
    [][ \A id \in Ids :
          (LoopRunning(id) /\ Closed(id) /\ ~senders[id]
             /\ write_q[id] = <<>> /\ resize_q[id] = <<>>)
            => inbound'[id] = inbound[id] ]_vars

\* C24: whenever the I/O loop of an SSH or Telnet session ends, it emits a
\* terminal-exit event for the session as its last act: connection-lost in an
\* SSH loop, connection-lost or connection-error in a Telnet loop
C24_LoopEndEmitsExit ==
    [][ \A id \in Ids :
          (LoopRunning(id) /\ task'[id] = "ended")
            => \E e \in (IF kind[id] = "Ssh" THEN {connection_lost}
                         ELSE {connection_lost, connection_error}) :
                 log'[id] = Append(log[id], ExitEvent(e)) ]_vars

\* C25: once start_streaming has been called on an SSH or Telnet session, the
\* chunks held in its pending buffer are eventually emitted (the buffer is
\* emptied only by emitting its content as a terminal-output event)
C25_BufferedEventuallyEmitted ==
    \A id \in Ids :
        (kind[id] \in {"Ssh", "Telnet"} /\ streaming_started[id] /\ pending_buffer[id] # <<>>)
          ~> (pending_buffer[id] = <<>>)

\* C26: while a write or a resize request is queued, the I/O loop of an SSH or
\* Telnet session processes no inbound data
C26_QueuedRequestsFirst ==
    [][ \A id \in Ids :
          (LoopRunning(id) /\ (write_q[id] # <<>> \/ resize_q[id] # <<>>))
            => (inbound'[id] = inbound[id] /\ pending_buffer'[id] = pending_buffer[id]) ]_vars

\* the buffer is a NAWS window-size message
IsNaws(buf) == Len(buf) >= 3 /\ SubSeq(buf, 1, 3) = <<IAC, SB, OPT_NAWS>>

\* the buffers a step has written to the socket
NewlyWritten == SubSeq(writer', Len(writer) + 1, Len(writer'))

\* a resize request: the tracked size becomes the requested one, and the step
\* writes the NAWS message of that size if NAWS is accepted (unless the socket
\* fails) and nothing otherwise
ResizeHandled ==
    \A size \in LoopSizes :
        loop_resize(size[1], size[2]) =>
            /\ current_cols' = size[1] /\ current_rows' = size[2]
            /\ NewlyWritten \in (IF protocol.naws_enabled
                                 THEN {<<>>, <<build_naws(size[1], size[2])>>}
                                 ELSE {<<>>})

\* C27: the Telnet loop writes a NAWS message only while NAWS is accepted, and
\* the message carries the tracked size; a resize request always updates the
\* tracked size and sends NAWS only if NAWS is accepted; a step in which NAWS
\* becomes accepted writes, unless the socket fails, the negotiation reply and
\* then the NAWS message of the tracked size
C27_NawsOnlyWhileAccepted ==
    [][ /\ \A i \in 1..Len(NewlyWritten) :
             IsNaws(NewlyWritten[i]) =>
                 /\ protocol'.naws_enabled
                 /\ NewlyWritten[i] = build_naws(current_cols', current_rows')
        /\ (~protocol.naws_enabled /\ protocol'.naws_enabled) =>
             \/ NewlyWritten = <<>>
             \/ /\ Len(NewlyWritten) = 2
                /\ ~IsNaws(NewlyWritten[1])
                /\ NewlyWritten[2] = build_naws(current_cols, current_rows)
        /\ ResizeHandled ]_vars

\* the parts of C27 that hold: the resize requests, the size carried by every
\* NAWS message, and the initial message after the reply when NAWS becomes
\* accepted
C27_ResizeAndInitialNaws ==
    [][ /\ \A i \in 1..Len(NewlyWritten) :
             IsNaws(NewlyWritten[i]) =>
                 NewlyWritten[i] = build_naws(current_cols', current_rows')
        /\ (~protocol.naws_enabled /\ protocol'.naws_enabled) =>
             \/ NewlyWritten = <<>>
             \/ /\ Len(NewlyWritten) = 2
                /\ ~IsNaws(NewlyWritten[1])
                /\ NewlyWritten[2] = build_naws(current_cols, current_rows)
        /\ ResizeHandled ]_vars

\* C28: process_data returns naws_requested = true for a chunk exactly when
\* NAWS was not accepted before the chunk and is accepted after it
C28_NawsJustAccepted ==
    tn_out.called =>
        (tn_out.naws_requested <=> (~tn_out.before.naws_enabled /\ proto.naws_enabled))

\* what process_data does return: naws_requested = true exactly for the
\* chunks in which a DO NAWS command is parsed
C28_NawsRequestedInChunk ==
    tn_out.called =>
        (tn_out.naws_requested <=>
           \E n \in 1..Len(tn_data) :
               /\ parse_bytes(tn_out.before, tn_data, n - 1).state = "Do"
               /\ tn_data[n] = OPT_NAWS)

\* the progress events of a chain whose every hop succeeds: for each hop in
\* order connecting, authenticating, connected
RECURSIVE FullProgress(_, _)
FullProgress(configs, n) ==
    IF n = 0 THEN <<>>
    ELSE FullProgress(configs, n - 1)
           \o [s \in 1..3 |->
                 [hop_index |-> n - 1, total_hops |-> Len(configs),
                  hostname |-> configs[n].hostname,
                  status |-> <<"connecting", "authenticating", "connected">>[s]]]

\* the number of events emitted up to the failure of a step of hop k
EventsUpTo(fault) ==
    3 * fault.hop + (CASE fault.step = "connect" -> 1
                       [] fault.step \in {"auth_error", "auth_rejected"} -> 2
                       [] fault.step = "tunnel" -> 3)

\* C29: the progress events of an execution over N hops are, hop by hop from
\* hop 0, connecting, authenticating, connected, each with the hop's 0-based
\* index, N and the hop's hostname; an execution that fails at hop k stops
\* there: after a failed connect only connecting(k) was emitted for hop k,
\* after a failed authentication connecting(k) and authenticating(k), after a
\* failed tunnel all three, and nothing for any later hop
C29_ProgressEvents ==
    ~IsPending(chain_result) =>
        LET full == FullProgress(chain_configs, Len(chain_configs)) IN
        IF chain_fault = NoFault
        THEN chain_result.ok /\ chain_result.events = full
        ELSE /\ ~chain_result.ok
             /\ chain_result.events = SubSeq(full, 1, EventsUpTo(chain_fault))
             /\ \A i \in 1..Len(chain_result.events) :
                  chain_result.events[i].hop_index <= chain_fault.hop

\* the tunnel from the first of two hops could not be opened: the three events
\* of hop 0 were emitted and none of hop 1
C29_Witness ==
    /\ ~IsPending(chain_result)
    /\ Len(chain_configs) = 2
    /\ chain_fault = [hop |-> 0, step |-> "tunnel"]
    /\ Len(chain_result.events) = 3
    /\ chain_result.events[3].status = "connected"

\* the flags with the flag of option x cleared, for the options in the set
Cleared(flags, x, options) ==
    IF x \notin options THEN flags
    ELSE IF x = OPT_NAWS THEN [flags EXCEPT !.naws_enabled = FALSE]
    ELSE IF x = OPT_SGA THEN [flags EXCEPT !.sga_enabled = FALSE]
    ELSE IF x = OPT_ECHO THEN [flags EXCEPT !.echo_enabled = FALSE]
    ELSE flags

\* C30 as stated: IAC WONT x clears the flag of x and sends nothing, IAC DONT x
\* clears the flag of x and replies IAC WONT x, for x among NAWS, SGA and ECHO;
\* for any other x no flag changes
C30_WontDontClearFlag ==
    \A x \in Byte :
      /\ (tn_out.called /\ tn_data = <<IAC, WONT, x>>) =>
           /\ tn_out.responses = <<>>
           /\ proto = Cleared(tn_out.before, x, {OPT_NAWS, OPT_SGA, OPT_ECHO})
      /\ (tn_out.called /\ tn_data = <<IAC, DONT, x>>) =>
           /\ tn_out.responses = <<IAC, WONT, x>>
           /\ proto = Cleared(tn_out.before, x, {OPT_NAWS, OPT_SGA, OPT_ECHO})

\* C30 amended: IAC WONT x clears the flag of x for the options the remote
\* side offers with WILL (ECHO, SGA) and sends nothing; IAC DONT x clears the
\* flag of x for the options the remote side requests with DO (NAWS, SGA) and
\* replies IAC WONT x; no other flag changes
C30_WontDontClearOwnFlag ==
    \A x \in Byte :
      /\ (tn_out.called /\ tn_data = <<IAC, WONT, x>>) =>
           /\ tn_out.responses = <<>>
           /\ proto = Cleared(tn_out.before, x, {OPT_SGA, OPT_ECHO})
      /\ (tn_out.called /\ tn_data = <<IAC, DONT, x>>) =>
           /\ tn_out.responses = <<IAC, WONT, x>>
           /\ proto = Cleared(tn_out.before, x, {OPT_NAWS, OPT_SGA})

\* IAC DONT NAWS has cleared the NAWS flag of a codec that had all three flags
\* set, and was answered IAC WONT NAWS
C30_Witness ==
    /\ tn_out.called
    /\ tn_data = <<IAC, DONT, OPT_NAWS>>
    /\ tn_out.before = TelnetProtocol(TRUE, TRUE, TRUE)
    /\ proto = TelnetProtocol(FALSE, TRUE, TRUE)
    /\ tn_out.responses = <<IAC, WONT, OPT_NAWS>>

\* the reply to a terminal-type request: IAC SB TERMINAL-TYPE IS, the
\* terminal type, IAC SE
TerminalTypeIs == <<IAC, SB, OPT_TTYPE, 0>> \o TerminalType \o <<IAC, SE>>

\* the chunk is one subnegotiation of the option with the payload, between
\* the data bytes pre and post
IsSubneg(data, pre, option, payload, post) ==
    data = pre \o <<IAC, SB, option>> \o payload \o <<IAC, SE>> \o post

\* C31: a subnegotiation is answered only when it is TERMINAL-TYPE with the
\* payload SEND, with IAC SB TERMINAL-TYPE IS, the terminal type and IAC SE;
\* every other subnegotiation has no response; no byte of a subnegotiation is
\* in the clean data
C31_OnlyTtypeSendAnswered ==
    \A pre \in {<<>>, <<65>>}, post \in {<<>>, <<66>>}, option \in SubnegOptions, payload \in SubnegPayloads :
      (tn_out.called /\ IsSubneg(tn_data, pre, option, payload, post)) =>
          /\ tn_out.responses =
                (IF option = OPT_TTYPE /\ payload = <<1>> THEN TerminalTypeIs ELSE <<>>)
          /\ tn_out.clean_data = pre \o post

\* what process_data does: every TERMINAL-TYPE subnegotiation is answered,
\* whatever its payload, and no other; no byte of a subnegotiation is in the
\* clean data, and the flags are as before
C31_EveryTtypeSubnegAnswered ==
    \A pre \in {<<>>, <<65>>}, post \in {<<>>, <<66>>}, option \in SubnegOptions, payload \in SubnegPayloads :
      (tn_out.called /\ IsSubneg(tn_data, pre, option, payload, post)) =>
          /\ tn_out.responses = (IF option = OPT_TTYPE THEN TerminalTypeIs ELSE <<>>)
          /\ tn_out.clean_data = pre \o post
          /\ proto = tn_out.before

\* the first character of the longest end of the text that takes at most
\* limit bytes, less one: the smallest n in lo..hi such that the characters
\* after the n-th take at most limit bytes
RECURSIVE NewestFrom(_, _, _, _)
NewestFrom(text, limit, lo, hi) ==
    IF lo >= hi THEN lo
    ELSE LET mid == (lo + hi) \div 2 IN
         IF str_len(SubSeq(text, mid + 1, Len(text))) <= limit
         THEN NewestFrom(text, limit, lo, mid)
         ELSE NewestFrom(text, limit, mid + 1, hi)

\* the newest content of a text: the longest end of it that takes at most
\* limit bytes
Newest(text, limit) == SubSeq(text, NewestFrom(text, limit, 0, Len(text)) + 1, Len(text))

\* the detection buffer of a call after the text is appended and, past the
\* cap, the oldest content is evicted
AfterEviction ==
    LET pushed == login_out.before.buffer \o login_out.data IN
    IF str_len(pushed) > max_buffer_size THEN Newest(pushed, max_buffer_size \div 2)
    ELSE pushed

\* the call of process was made in a state in which process looks for a prompt
Matching == login_out.called /\ login_out.before.state \in {"AwaitingLogin", "AwaitingPassword"}

\* the call of process found the prompt it was waiting for in the buffer
\* after eviction
Matched ==
    LET before == login_out.before
        seen == PromptIn(AfterEviction)
    IN  \/ before.state = "AwaitingLogin" /\ seen = "Login"
        \/ before.state = "AwaitingPassword" /\ seen = "Password"

\* the call of process returned and did what the buffer after eviction asks
\* for: the credential and an empty buffer on a match, nothing and the buffer
\* after eviction otherwise; the buffer takes at most the cap
ProcessedAfterEviction ==
    /\ ~login_out.panicked
    /\ str_len(login.buffer) <= max_buffer_size
    /\ IF Matched
       THEN login_out.response # None /\ login.buffer = <<>>
       ELSE login_out.response = None /\ login.buffer = AfterEviction

\* C32: after every call of process the buffer takes at most 1024 bytes;
\* when the appended text takes it past the cap the oldest content is evicted
\* and the newest kept, and the prompt is looked for in the buffer after
\* eviction
C32_BufferCappedNewestKept == Matching => ProcessedAfterEviction

\* the cut of the eviction falls inside a character of the buffer
CutInsideChar ==
    LET pushed == login_out.before.buffer \o login_out.data IN
    /\ str_len(pushed) > max_buffer_size
    /\ str_len(Newest(pushed, max_buffer_size \div 2)) # max_buffer_size \div 2

\* what process does: it panics when the cut falls inside a character, and
\* otherwise returns as C32 says
C32_BufferCappedUnlessCutInsideChar ==
    Matching => IF CutInsideChar THEN login_out.panicked ELSE ProcessedAfterEviction

\* a call in which a prompt is evicted with the oldest content and is not
\* answered
C32_EvictedPromptState ==
    /\ Matching
    /\ login_out.data = LoginPrompt \o Repeat("x", max_buffer_size + 1)
    /\ login_out.response = None
    /\ Len(login.buffer) = max_buffer_size \div 2

\* process_data of a new codec on the whole stream as one chunk
WholeStream == process_data(TelnetProtocol(FALSE, FALSE, FALSE), stream)

\* the reads of the stream so far give what one read of all of it gives: the
\* same clean data, the same responses and the same flags
SameAsWhole ==
    /\ cleaned = WholeStream.clean_data
    /\ responded = WholeStream.responses
    /\ codec = WholeStream.self

\* C33: a stream given to one codec in several consecutive chunks, split at
\* any positions, gives the same concatenated clean data, the same
\* concatenated responses and the same final flags as the stream given as a
\* single chunk
C33_SplitEqualsWhole == (fed = Len(stream)) => SameAsWhole

\* the position is between two commands: the parser of the whole stream is
\* in its Data state after that many bytes
BetweenCommands(k) ==
    parse_bytes(TelnetProtocol(FALSE, FALSE, FALSE), stream, k).state = "Data"

\* what process_data does: the chunks give what the whole stream gives when
\* every split is between two commands
C33_SplitBetweenCommandsEqualsWhole ==
    (fed = Len(stream) /\ \A k \in cuts : BetweenCommands(k)) => SameAsWhole

\* a stream split inside a command whose second part is taken for data
C33_SplitCommandState ==
    /\ stream = <<IAC, DO, OPT_NAWS>>
    /\ cuts = {1, 3}
    /\ cleaned = <<DO, OPT_NAWS>>
    /\ ~codec.naws_enabled

\* C34: two uploads of the same file name into the same directory on one
\* session write two distinct remote paths: the names the two took differ
\* (stated for the uploads whose listing of the directory succeeded)
C34_ConcurrentUploadsDistinct ==
    \A t1 \in Created, t2 \in Created :
        (t1 # t2 /\ uploads[t1].list_ok /\ uploads[t2].list_ok) =>
            uploads[t1].unique_file_name # uploads[t2].unique_file_name

\* what upload_file does: an upload whose listing succeeded takes a name
\* different from that of every upload that had created its file before the
\* listing was taken
C34_LaterListingDistinct ==
    \A t1 \in Created, t2 \in Created :
        (t1 \in uploads[t2].after /\ uploads[t2].list_ok) =>
            uploads[t1].unique_file_name # uploads[t2].unique_file_name

\* two uploads that both listed an empty directory and took the same name
C34_SameNameState ==
    /\ Created = UploadIds
    /\ \A tid \in UploadIds : uploads[tid].list_ok /\ uploads[tid].after = {}
    /\ \A tid \in UploadIds : uploads[tid].unique_file_name = UploadName

\* the list and stat calls that have listed a directory on an Ftp or Ftps
\* session after their CWD to a directory other than the root succeeded
ListedAfterCwd ==
    {call \in DOMAIN lists :
        /\ lists[call].pc = "done"
        /\ ft_sessions[lists[call].session_id] # "sftp"
        /\ ~lists[call].read_failed
        /\ ~is_root_like(lists[call].path)}

\* C35: on an Ftp or Ftps session list_directory(P) returns the entries of P
\* and stat(P/name) looks in the listing of P, also when another call for a
\* different directory runs on the same session at the same time
C35_ListsRequestedDirectory ==
    \A call \in ListedAfterCwd : lists[call].listed = normalized_path(lists[call].path)

\* what the session does guarantee: a call that is the only one made so far
\* lists the directory it was asked for
C35_SingleCallListsRequestedDirectory ==
    Cardinality(DOMAIN lists) = 1 => C35_ListsRequestedDirectory

\* a list_directory of /s that returned the entries of /t, the directory a
\* stat entered in between
C35_OtherDirectoryState ==
    /\ 1 \in ListedAfterCwd
    /\ lists[1].path = <<"/", "s">>
    /\ lists[1].listed = <<"/", "t">>
    /\ 2 \in DOMAIN lists

\* the file-transfer-progress events that carry the session id
EventsOfSession(events, id) == SelectSeq(events, LAMBDA e : e.session_id = id)

\* C36: once close_session(id) of the file-transfer manager has returned, no
\* file-transfer-progress event with that session id is emitted any more: in
\* no step does a session that is not registered get a new event
C36_NoProgressAfterClose ==
    [][ \A id \in FtIds :
          ~FtRegistered(id) => EventsOfSession(progress', id) = EventsOfSession(progress, id) ]_vars

\* what the manager does guarantee: no transfer starts to copy on a session
\* that is not registered
C36_NoTransferStartsAfterClose ==
    [][ \A tid \in TransferIds :
          (tid \notin DOMAIN transfers /\ tid \in DOMAIN transfers'
             /\ transfers'[tid].pc = "copying")
            => FtRegistered(transfers'[tid].session_id) ]_vars

\* the calls for a path that is not root-like whose directory could not be
\* read (Sftp) or entered (Ftp, Ftps)
Unreadable ==
    {call \in DOMAIN lists : ~is_root_like(lists[call].path) /\ lists[call].read_failed}

\* C37: for a path P that is not root-like, list_directory(P) returns entries
\* that lie under P or an error: a call whose directory cannot be read or
\* entered does not return a listing
C37_UnreadableGivesError ==
    \A call \in Unreadable : lists[call].pc # "done"

\* what an Sftp session does: a call for a path that is not root-like returns
\* the entries of that path when it can be read, and the entries of "/" when
\* it cannot
C37_SftpFallsBackToRoot ==
    \A call \in DOMAIN lists :
        LET l == lists[call] IN
        (l.pc = "done" /\ ft_sessions[l.session_id] = "sftp" /\ ~is_root_like(l.path)) =>
            /\ l.listed = (IF l.read_failed THEN RootPath ELSE normalized_path(l.path))
            /\ l.actual_path = l.listed

\* a list_directory of /s on an Sftp session that returned the entries of "/"
C37_RootListedState ==
    /\ 1 \in Unreadable
    /\ lists[1].pc = "done"
    /\ ft_sessions[1] = "sftp"
    /\ lists[1].path = <<"/", "s">>
    /\ lists[1].listed = RootPath

\* the text holds one of the fragments, without regard to case
HasFragment(text, patterns) ==
    \E k \in DOMAIN patterns : contains(text_to_lowercase(text), patterns[k])

\* the text accumulated for the call of process: the buffer before the call
\* and the text given
Accumulated == login_out.before.buffer \o login_out.data

\* the call of process was made with a username while waiting for the login
\* prompt, and the accumulated text holds a login fragment
LoginPromptSeen ==
    /\ login_out.called
    /\ login_out.before.state = "AwaitingLogin"
    /\ login_out.before.username.some
    /\ HasFragment(Accumulated, LOGIN_PATTERNS)

UsernameSent == login_out.response = Some(login_out.before.username.value \o <<"\r", "\n">>)

\* C38: with a username and in AwaitingLogin, the call of process in which
\* the accumulated text holds a login fragment returns the username, whatever
\* else the buffer holds
C38_LoginPromptAnswered == LoginPromptSeen => UsernameSent

\* what process does: the username is returned when the accumulated text
\* holds a login fragment and no password fragment
C38_LoginPromptAnsweredWithoutPasswordFragment ==
    (LoginPromptSeen /\ ~HasFragment(Accumulated, PASSWORD_PATTERNS)) => UsernameSent

\* a login prompt that is not answered because the buffer holds a password
\* fragment from earlier text
C38_MaskedPromptState ==
    /\ LoginPromptSeen
    /\ login_out.data = <<"l", "o", "g", "i", "n", ":", " ">>
    /\ HasFragment(login_out.before.buffer, PASSWORD_PATTERNS)
    /\ login_out.response = None
    /\ login.state = "AwaitingLogin"

\* the steps of the state of an auto-login handler: it stays, or moves
\* forward along AwaitingLogin, AwaitingPassword, Authenticated
Forward ==
    { <<"AwaitingLogin", "AwaitingPassword">>, <<"AwaitingLogin", "Authenticated">>,
      <<"AwaitingPassword", "Authenticated">> }
      \cup { <<st, st>> : st \in {"AwaitingLogin", "AwaitingPassword", "Authenticated", "Disabled"} }

\* the responses of a handler with these credentials: nothing, the username,
\* or the username and then the password
InOrder(username, password) ==
    { <<>> } \cup (IF username.some THEN { <<username.value \o CRLF>> } ELSE {})
             \cup (IF username.some /\ password.some
                   THEN { <<username.value \o CRLF, password.value \o CRLF>> } ELSE {})

\* the state of the handler stays or moves forward in the step
MovesForward == (<<login.state, login'.state>> \in Forward)

\* C39: over the calls of process of one handler the username is returned
\* at most once and the password at most once, the password never before the
\* username, and the state only stays or moves forward along AwaitingLogin,
\* AwaitingPassword, Authenticated, never into or out of Disabled
C39_CredentialsOnceForwardOnly ==
    /\ [](login_sent \in InOrder(login.username, login.password))
    /\ [][MovesForward]_vars

\* both credentials have been returned and process has been called again
C39_Witness ==
    /\ login_sent = <<Admin \o CRLF, Secret \o CRLF>>
    /\ login_out.called
    /\ login_out.before.state = "Authenticated"
    /\ PromptIn(login_out.data) = "Login"

\* the texts returned for ids whose name was found: by a resolution that
\* succeeded, or in the cache such a resolution filled
Named == {t \in stat_seen : t.from \in {"resolved", "cache"}}

\* C40: the stat calls on one SFTP session return the same owner text for the
\* same uid and the same group text for the same gid, whether the name comes
\* from the first resolution that succeeded or from the cache it filled
C40_SameTextForSameId ==
    \A a \in Named, b \in Named : (a.what = b.what /\ a.id = b.id) => a.text = b.text

\* the name the server has for the id
NameOf(what, id) == trim(IF what = "owner" THEN getent_passwd(id) ELSE getent_group(id))

\* what stat does return: the name followed by the id in parentheses when the
\* resolution has just succeeded, the name alone when it comes from the
\* cache, and the number when the resolution failed
C40_TextDependsOnSource ==
    \A t \in stat_seen :
        t.text = CASE t.from = "resolved" -> WithId(NameOf(t.what, t.id), t.id)
                   [] t.from = "cache" -> NameOf(t.what, t.id)
                   [] t.from = "failed" -> Display(t.id)

\* a stat that returned the owner of uid 1000 from the cache, after one that
\* had returned it from the resolution
C40_TwoTextsState ==
    /\ stat_out.called /\ stat_out.ok
    /\ stat_out.uid = Some(1000)
    /\ stat_out.owner = Some(<<"a", "l">>)
    /\ Seen("owner", 1000, <<"a", "l", " ", "(", "1", "0", "0", "0", ")">>, "resolved") \in stat_seen


====
